---- MODULE Spec2Model ----
(***************************************************************************)
(* Model of the public submission pipeline of youvit-form: the POST        *)
(* handler of /api/submissions (allow-list validation against the          *)
(* reference sheets, notes limit, 50 s timeout race), its Google Sheets    *)
(* writer addToGoogleSheets (append, create-sheet recovery), and the       *)
(* reference data route GET /api/sheets-data.                              *)
(*                                                                         *)
(* Strings that the code inspects character by character (names, store     *)
(* locations, notes, error messages) are sequences of one-character        *)
(* strings.  Strings the code only copies (timestamp, form title, header   *)
(* labels) are one-symbol sequences.  JavaScript values are tagged         *)
(* records.                                                                *)
(***************************************************************************)
EXTENDS Integers, Sequences, FiniteSets, TLC

\* ------------------------------------------------------------------ bounds
\* Number of POST requests in flight in one behaviour.
NumReqs == 2
\* Number of data rows already in the 'Submissions' sheet at the start.
MaxOldRows == 1
\* Largest run of whitespace put around the notes body by a client.
MaxPad == 1
\* Longest field list handed to the public form renderer.
MaxFormFields == 2
\* Longest field list built in the form builder.
MaxBuilt == 2
\* Latest value of the millisecond clock read by the form builder.
MaxClock == 2

Reqs == 1..NumReqs

\* ------------------------------------------------------- JavaScript values
Undefined == [t |-> "undefined"]
Null == [t |-> "null"]
Str(s) == [t |-> "string", s |-> s]
Num(n) == [t |-> "number", n |-> n]
Arr(items) == [t |-> "array", items |-> items]
typeof(v) == IF v.t = "null" THEN "object" ELSE v.t

\* Boolean(v) / the truthiness the || and ! operators use
Truthy(v) ==
    CASE v.t = "string" -> v.s # <<>>
      [] v.t = "number" -> v.n # 0
      [] v.t = "undefined" -> FALSE
      [] v.t = "null" -> FALSE
      [] OTHER -> TRUE

\* value || ''
OrEmpty(v) == IF Truthy(v) THEN v ELSE Str(<<>>)

\* ------------------------------------------------------ string operations
\* the characters \s and String.prototype.trim treat as white space
\* (space, tab and line feed stand for the whole class)
WhiteSpace == {" ", "\t", "\n"}

UpperCase ==
    <<"A", "B", "C", "D", "E", "F", "G", "H", "I", "J", "K", "L", "M",
      "N", "O", "P", "Q", "R", "S", "T", "U", "V", "W", "X", "Y", "Z">>
LowerCase ==
    <<"a", "b", "c", "d", "e", "f", "g", "h", "i", "j", "k", "l", "m",
      "n", "o", "p", "q", "r", "s", "t", "u", "v", "w", "x", "y", "z">>

LowerOf(c) ==
    IF \E i \in 1..Len(UpperCase) : UpperCase[i] = c
    THEN LowerCase[CHOOSE i \in 1..Len(UpperCase) : UpperCase[i] = c]
    ELSE c

\* String.prototype.toLowerCase
toLowerCase(s) == [i \in 1..Len(s) |-> LowerOf(s[i])]

\* String.prototype.trim: from the first to the last character that is not
\* white space
trim(s) ==
    IF \A i \in 1..Len(s) : s[i] \in WhiteSpace THEN <<>>
    ELSE LET first == CHOOSE i \in 1..Len(s) :
                        /\ s[i] \notin WhiteSpace
                        /\ \A j \in 1..(i - 1) : s[j] \in WhiteSpace
             last == CHOOSE i \in 1..Len(s) :
                        /\ s[i] \notin WhiteSpace
                        /\ \A j \in (i + 1)..Len(s) : s[j] \in WhiteSpace
         IN  SubSeq(s, first, last)

\* value.replace(/\s+/g, " "): every maximal run of white space becomes one
\* space
RECURSIVE collapseFrom(_, _)
collapseFrom(s, inRun) ==
    IF s = <<>> THEN <<>>
    ELSE IF Head(s) \in WhiteSpace
         THEN IF inRun THEN collapseFrom(Tail(s), TRUE)
              ELSE <<" ">> \o collapseFrom(Tail(s), TRUE)
         ELSE <<Head(s)>> \o collapseFrom(Tail(s), FALSE)

collapseWhitespace(s) == collapseFrom(s, FALSE)

\* mutant: the comparison key without the case folding
normalizeValue_CaseSensitive(value) == trim(collapseWhitespace(value))

\* const normalizeValue = (value) =>
\*     value.replace(/\s+/g, " ").trim().toLowerCase()
normalizeValue(value) == toLowerCase(trim(collapseWhitespace(value)))

\* String.prototype.includes
Includes(s, sub) ==
    \E i \in 0..(Len(s) - Len(sub)) : SubSeq(s, i + 1, i + Len(sub)) = sub

\* ------------------------------------------------- literals of the code
\* the error texts of the responses
ErrEmployeeNotString ==
    <<"E", "m", "p", "l", "o", "y", "e", "e", " ", "n", "a", "m", "e", " ",
    "m", "u", "s", "t", " ", "b", "e", " ", "a", " ", "v", "a", "l", "i",
    "d", " ", "s", "t", "r", "i", "n", "g">>
ErrEmployeeRequired ==
    <<"E", "m", "p", "l", "o", "y", "e", "e", " ", "n", "a", "m", "e", " ",
    "i", "s", " ", "r", "e", "q", "u", "i", "r", "e", "d">>
ErrEmployeeNoMatch ==
    <<"E", "m", "p", "l", "o", "y", "e", "e", " ", "n", "a", "m", "e", " ",
    "m", "u", "s", "t", " ", "m", "a", "t", "c", "h", " ", "a", "n", " ",
    "e", "x", "i", "s", "t", "i", "n", "g", " ", "e", "m", "p", "l", "o",
    "y", "e", "e">>
ErrStoreNotString ==
    <<"S", "t", "o", "r", "e", " ", "l", "o", "c", "a", "t", "i", "o", "n",
    " ", "m", "u", "s", "t", " ", "b", "e", " ", "a", " ", "v", "a", "l",
    "i", "d", " ", "s", "t", "r", "i", "n", "g">>
ErrStoreRequired ==
    <<"S", "t", "o", "r", "e", " ", "l", "o", "c", "a", "t", "i", "o", "n",
    " ", "i", "s", " ", "r", "e", "q", "u", "i", "r", "e", "d">>
ErrStoreNoMatch ==
    <<"S", "t", "o", "r", "e", " ", "l", "o", "c", "a", "t", "i", "o", "n",
    " ", "m", "u", "s", "t", " ", "m", "a", "t", "c", "h", " ", "a", "n",
    " ", "e", "x", "i", "s", "t", "i", "n", "g", " ", "s", "t", "o", "r",
    "e">>
ErrValidateFailed ==
    <<"F", "a", "i", "l", "e", "d", " ", "t", "o", " ", "v", "a", "l", "i",
    "d", "a", "t", "e", " ", "s", "u", "b", "m", "i", "s", "s", "i", "o",
    "n", " ", "d", "a", "t", "a">>
ErrNotesNotText ==
    <<"N", "o", "t", "e", "s", " ", "m", "u", "s", "t", " ", "b", "e", " ",
    "p", "r", "o", "v", "i", "d", "e", "d", " ", "a", "s", " ", "t", "e",
    "x", "t">>
ErrNotesTooLong ==
    <<"N", "o", "t", "e", "s", " ", "m", "u", "s", "t", " ", "b", "e", " ",
    "2", "0", "0", " ", "c", "h", "a", "r", "a", "c", "t", "e", "r", "s",
    " ", "o", "r", " ", "f", "e", "w", "e", "r">>
ErrSaveFailed ==
    <<"F", "a", "i", "l", "e", "d", " ", "t", "o", " ", "s", "a", "v", "e",
    " ", "s", "u", "b", "m", "i", "s", "s", "i", "o", "n">>
ErrTimeout ==
    <<"R", "e", "q", "u", "e", "s", "t", " ", "t", "i", "m", "e", "o", "u",
    "t", ".", " ", "P", "l", "e", "a", "s", "e", " ", "t", "r", "y", " ",
    "a", "g", "a", "i", "n", ".">>
ErrInvalidFormData ==
    <<"I", "n", "v", "a", "l", "i", "d", " ", "f", "o", "r", "m", " ", "d",
    "a", "t", "a">>
ErrInternal ==
    <<"I", "n", "t", "e", "r", "n", "a", "l", " ", "S", "e", "r", "v", "e",
    "r", " ", "E", "r", "r", "o", "r">>

\* the response bodies carry one of these texts; a state keeps its code
ErrorMessage(code) ==
    CASE code = "EmployeeNotString" -> ErrEmployeeNotString
      [] code = "EmployeeRequired" -> ErrEmployeeRequired
      [] code = "EmployeeNoMatch" -> ErrEmployeeNoMatch
      [] code = "StoreNotString" -> ErrStoreNotString
      [] code = "StoreRequired" -> ErrStoreRequired
      [] code = "StoreNoMatch" -> ErrStoreNoMatch
      [] code = "ValidateFailed" -> ErrValidateFailed
      [] code = "NotesNotText" -> ErrNotesNotText
      [] code = "NotesTooLong" -> ErrNotesTooLong
      [] code = "SaveFailed" -> ErrSaveFailed
      [] code = "Timeout" -> ErrTimeout
      [] code = "InvalidFormData" -> ErrInvalidFormData
      [] code = "Internal" -> ErrInternal
      [] OTHER -> <<>>

\* ----------------------------------------------- strings used as inputs
S_employee ==
    <<"e", "m", "p", "l", "o", "y", "e", "e">>
S_store ==
    <<"s", "t", "o", "r", "e">>
S_JaneDoe ==
    <<"J", "a", "n", "e", " ", "D", "o", "e">>
S_janedoe ==
    <<"j", "a", "n", "e", " ", "d", "o", "e">>
S_JaneDoeSpaced ==
    <<" ", "J", "a", "n", "e", " ", " ", " ", "D", "o", "e", " ">>
S_JANEDOE ==
    <<"J", "A", "N", "E", " ", "D", "O", "E">>
S_JohnSmith ==
    <<"J", "o", "h", "n", " ", "S", "m", "i", "t", "h">>
S_Blank ==
    <<" ", " ">>
S_StoreA ==
    <<"S", "t", "o", "r", "e", " ", "A">>
S_Jakarta ==
    <<"J", "a", "k", "a", "r", "t", "a">>
S_StoreAJakarta ==
    <<"S", "t", "o", "r", "e", " ", "A", " ", "-", " ", "J", "a", "k", "a",
    "r", "t", "a">>
S_storeaSpaced ==
    <<" ", "s", "t", "o", "r", "e", " ", " ", "a", " ">>
S_STOREAJAKARTA ==
    <<"S", "T", "O", "R", "E", " ", "A", " ", "-", " ", " ", "J", "A", "K",
    "A", "R", "T", "A">>
S_StoreABandung ==
    <<"S", "t", "o", "r", "e", " ", "A", " ", "-", " ", "B", "a", "n", "d",
    "u", "n", "g">>
S_DashJakarta ==
    <<"-", " ", "J", "a", "k", "a", "r", "t", "a">>
S_StoreADash ==
    <<"S", "t", "o", "r", "e", " ", "A", " ", "-">>
S_ok ==
    <<"o", "k">>
S_Dash ==
    <<" ", "-", " ">>
S_JaneTabDoe ==
    <<"J", "a", "n", "e", "\t", "D", "o", "e">>

\* -------------------------------------------- reference data gateway
\* outcome of an async function: a returned value or a thrown error
Returned(v) == [ok |-> TRUE, value |-> v, error |-> "none"]
Thrown(e) == [ok |-> FALSE, value |-> Undefined, error |-> e]

\* rows.map((row) => ({ id: row.get("employee_id"), name: row.get("name") }))
EmployeeOf(row) == [id |-> row.employee_id, name |-> row.name]

\* rows.map((row) => ({ id: row.get("store_id"), name: ..., location: ... }))
StoreOf(row) ==
    [id |-> row.store_id, name |-> row.name, location |-> row.location,
     region |-> row.region, manager |-> row.manager]

employeesOf(rows) == [i \in 1..Len(rows) |-> EmployeeOf(rows[i])]
storesOf(rows) == [i \in 1..Len(rows) |-> StoreOf(rows[i])]

\* async function fetchAllowedSheetData(options).  e is process.env, d the
\* spreadsheet's reference tabs, api the fate of the API calls of this
\* invocation ("ok", or the call that throws: "loadInfo", "getRows").
fetchAllowedSheetData(options, e, d, api) ==
    IF ~options.includeEmployees /\ ~options.includeStores
    THEN Returned([employees |-> <<>>, stores |-> <<>>])
    ELSE IF ~e.clientEmail \/ ~e.privateKey \/ ~e.spreadsheetId
    THEN Thrown("Google Sheets configuration missing")
    ELSE IF api = "loadInfo"
    THEN Thrown("Sheets API error")
    ELSE IF options.includeEmployees /\ ~d.employees.present
    THEN Thrown("Employees sheet not found")
    ELSE IF options.includeEmployees /\ api = "getRows"
    THEN Thrown("Sheets API error")
    ELSE IF options.includeStores /\ ~d.stores.present
    THEN Thrown("Stores sheet not found")
    ELSE IF options.includeStores /\ api = "getRows"
    THEN Thrown("Sheets API error")
    ELSE Returned(
           [employees |->
               IF options.includeEmployees
               THEN employeesOf(d.employees.rows) ELSE <<>>,
            stores |->
               IF options.includeStores
               THEN storesOf(d.stores.rows) ELSE <<>>])

\* GET /api/sheets-data?type=...  The response: status, and the lists of the
\* body (Undefined for a list the body does not carry).
SheetsDataResponse(status, employees, stores) ==
    [status |-> status, employees |-> employees, stores |-> stores]

sheetsDataGET(type, e, d, api) ==
    IF ~e.clientEmail \/ ~e.privateKey \/ ~e.spreadsheetId
    THEN SheetsDataResponse(500, Undefined, Undefined)
    ELSE IF api = "loadInfo"
    THEN SheetsDataResponse(500, Undefined, Undefined)
    ELSE IF type = "employees"
    THEN IF ~d.employees.present
         THEN SheetsDataResponse(404, Undefined, Undefined)
         ELSE IF api = "getRows"
         THEN SheetsDataResponse(500, Undefined, Undefined)
         ELSE SheetsDataResponse(200,
                  Arr(employeesOf(d.employees.rows)), Undefined)
    ELSE IF type = "stores"
    THEN IF ~d.stores.present
         THEN SheetsDataResponse(404, Undefined, Undefined)
         ELSE IF api = "getRows"
         THEN SheetsDataResponse(500, Undefined, Undefined)
         ELSE SheetsDataResponse(200, Undefined,
                  Arr(storesOf(d.stores.rows)))
    ELSE IF api = "getRows" /\ (d.employees.present \/ d.stores.present)
    THEN SheetsDataResponse(500, Undefined, Undefined)
    ELSE SheetsDataResponse(200,
             Arr(IF d.employees.present
                 THEN employeesOf(d.employees.rows) ELSE <<>>),
             Arr(IF d.stores.present
                 THEN storesOf(d.stores.rows) ELSE <<>>))

\* ------------------------------------------------------------- responses
\* NextResponse.json(body, { status }): the status, the code of body.error,
\* whether the body carries an id, and body.sheetsRange
NoResponse ==
    [status |-> 0, error |-> "none", hasId |-> FALSE,
     sheetsRange |-> Undefined]
ErrorResponse(status, code) ==
    [status |-> status, error |-> code, hasId |-> FALSE,
     sheetsRange |-> Undefined]
Created(range) ==
    [status |-> 201, error |-> "none", hasId |-> TRUE, sheetsRange |-> range]

\* ---------------------------------------------- submission normalizer
SeqRange(s) == {s[i] : i \in 1..Len(s)}

\* new Set(employees.map(e => e.name).filter(name => Boolean(name))
\*                  .map(name => normalizeValue(name)))
allowedEmployeeNames(employees) ==
    {normalizeValue(e.name.s) : e \in {x \in SeqRange(employees) : Truthy(x.name)}}

\* mutant: the location is not required for the "{name} - {location}" form
StoreKeys_NoLocationCheck(store) ==
    IF ~Truthy(store.name) THEN {}
    ELSE LET trimmedName == trim(store.name.s)
         IN  (IF trimmedName # <<>>
              THEN {normalizeValue(trimmedName)} ELSE {})
             \cup
             (IF trimmedName # <<>>
              THEN {normalizeValue(trimmedName \o S_Dash \o
                      (IF Truthy(store.location)
                       THEN trim(store.location.s) ELSE <<>>))}
              ELSE {})

\* the body of stores.forEach((store) => { ... allowedStoreValues.add ... })
StoreKeys(store) ==
    IF ~Truthy(store.name) THEN {}
    ELSE LET trimmedName == trim(store.name.s)
         IN  (IF trimmedName # <<>>
              THEN {normalizeValue(trimmedName)} ELSE {})
             \cup
             (IF Truthy(store.location)
              THEN LET trimmedLocation == trim(store.location.s)
                   IN  IF trimmedName # <<>> /\ trimmedLocation # <<>>
                       THEN {normalizeValue(
                               trimmedName \o S_Dash \o trimmedLocation)}
                       ELSE {}
              ELSE {})

allowedStoreValues(stores) == UNION {StoreKeys(s) : s \in SeqRange(stores)}

\* outcome of one step of processSubmission: a response to return, or the
\* (possibly rewritten) submissionData to go on with
Return(resp, data) == [resp |-> resp, data |-> data]
GoOn(data) == [resp |-> NoResponse, data |-> data]

\* mutant: the canonical key is stored instead of the trimmed input
checkEmployee_StoresKey(data, employees) ==
    LET employeeNameValue == data.employee_name
    IN  IF employeeNameValue = Undefined THEN GoOn(data)
        ELSE IF typeof(employeeNameValue) # "string"
        THEN Return(ErrorResponse(400, "EmployeeNotString"), data)
        ELSE LET trimmedEmployeeName == trim(employeeNameValue.s)
             IN  IF trimmedEmployeeName = <<>>
                 THEN Return(ErrorResponse(400, "EmployeeRequired"), data)
                 ELSE IF normalizeValue(trimmedEmployeeName)
                           \notin allowedEmployeeNames(employees)
                 THEN Return(ErrorResponse(400, "EmployeeNoMatch"), data)
                 ELSE GoOn([data EXCEPT !.employee_name =
                              Str(normalizeValue(trimmedEmployeeName))])

\* if (employeeNameValue !== undefined) { ... }
checkEmployee(data, employees) ==
    LET employeeNameValue == data.employee_name
    IN  IF employeeNameValue = Undefined THEN GoOn(data)
        ELSE IF typeof(employeeNameValue) # "string"
        THEN Return(ErrorResponse(400, "EmployeeNotString"), data)
        ELSE LET trimmedEmployeeName == trim(employeeNameValue.s)
             IN  IF trimmedEmployeeName = <<>>
                 THEN Return(ErrorResponse(400, "EmployeeRequired"), data)
                 ELSE IF normalizeValue(trimmedEmployeeName)
                           \notin allowedEmployeeNames(employees)
                 THEN Return(ErrorResponse(400, "EmployeeNoMatch"), data)
                 ELSE GoOn([data EXCEPT !.employee_name =
                              Str(trimmedEmployeeName)])

\* if (storeLocationValue !== undefined) { ... }
checkStore(data, stores) ==
    LET storeLocationValue == data.store_location
    IN  IF storeLocationValue = Undefined THEN GoOn(data)
        ELSE IF typeof(storeLocationValue) # "string"
        THEN Return(ErrorResponse(400, "StoreNotString"), data)
        ELSE LET trimmedStoreLocation == trim(storeLocationValue.s)
             IN  IF trimmedStoreLocation = <<>>
                 THEN Return(ErrorResponse(400, "StoreRequired"), data)
                 ELSE IF normalizeValue(trimmedStoreLocation)
                           \notin allowedStoreValues(stores)
                 THEN Return(ErrorResponse(400, "StoreNoMatch"), data)
                 ELSE GoOn([data EXCEPT !.store_location =
                              Str(trimmedStoreLocation)])

\* the notes ceiling of the notes check
NotesLimit == 200

\* mutant: the ceiling compared with >= (exactly 200 rejected)
checkNotes_OffByOne(data) ==
    LET notesValue == data.notes
    IN  IF notesValue = Undefined THEN GoOn(data)
        ELSE IF typeof(notesValue) # "string"
        THEN Return(ErrorResponse(400, "NotesNotText"), data)
        ELSE LET trimmedNotes == trim(notesValue.s)
             IN  IF Len(trimmedNotes) >= NotesLimit
                 THEN Return(ErrorResponse(400, "NotesTooLong"), data)
                 ELSE GoOn([data EXCEPT !.notes = Str(trimmedNotes)])

\* if (notesValue !== undefined) { ... }
checkNotes(data) ==
    LET notesValue == data.notes
    IN  IF notesValue = Undefined THEN GoOn(data)
        ELSE IF typeof(notesValue) # "string"
        THEN Return(ErrorResponse(400, "NotesNotText"), data)
        ELSE LET trimmedNotes == trim(notesValue.s)
             IN  IF Len(trimmedNotes) > NotesLimit
                 THEN Return(ErrorResponse(400, "NotesTooLong"), data)
                 ELSE GoOn([data EXCEPT !.notes = Str(trimmedNotes)])

\* employeeNameValue !== undefined || storeLocationValue !== undefined
NeedsFetch(data) ==
    data.employee_name # Undefined \/ data.store_location # Undefined

FetchOptions(data) ==
    [includeEmployees |-> data.employee_name # Undefined,
     includeStores |-> data.store_location # Undefined]

\* mutant: a failed fetch is answered like a value that is not allowed
checkAllowLists_FailureAs400(data, fetched) ==
    IF ~fetched.ok
    THEN Return(ErrorResponse(400, "EmployeeNoMatch"), data)
    ELSE LET afterEmployee == checkEmployee(data, fetched.value.employees)
         IN  IF afterEmployee.resp # NoResponse THEN afterEmployee
             ELSE checkStore(afterEmployee.data, fetched.value.stores)

\* the try { ... } catch (validationError) { ... } block, after the await:
\* fetched is the outcome of fetchAllowedSheetData
checkAllowLists(data, fetched) ==
    IF ~fetched.ok
    THEN Return(ErrorResponse(500, "ValidateFailed"), data)
    ELSE LET afterEmployee == checkEmployee(data, fetched.value.employees)
         IN  IF afterEmployee.resp # NoResponse THEN afterEmployee
             ELSE checkStore(afterEmployee.data, fetched.value.stores)

\* ------------------------------------------------- submission writer
\* the two versions of app/api/submissions/route.ts this repository holds:
\* "validating" checks the allow-lists and the notes and writes columns
\* A:J (with Visibility), "direct" writes the payload as it came to A:I
Deployments == {"validating", "direct"}

\* an upload result { url: ... }
FileObj(url) == [t |-> "object", url |-> url]

\* what a call that throws a TypeError gives
TypeError == [t |-> "TypeError"]

\* reading .url of a value: undefined on a primitive, a TypeError on null
\* and undefined
PropUrl(v) ==
    IF v.t \in {"null", "undefined"} THEN TypeError
    ELSE IF v.t = "object" THEN v.url
    ELSE Undefined

\* const getFileUrl = (fileData) => { ... }
getFileUrl(fileData) ==
    IF ~Truthy(fileData) THEN Str(<<>>)
    ELSE IF typeof(fileData) = "string" THEN fileData
    ELSE IF fileData.t = "array" /\ Len(fileData.items) > 0
    THEN IF PropUrl(fileData.items[1]) = TypeError THEN TypeError
         ELSE OrEmpty(PropUrl(fileData.items[1]))
    ELSE IF Truthy(PropUrl(fileData)) THEN PropUrl(fileData)
    ELSE Str(<<>>)

\* Array.isArray(v) ? v.join(', ') : (v || '')   (elements are strings)
RECURSIVE JoinFrom(_)
JoinFrom(items) ==
    IF items = <<>> THEN <<>>
    ELSE IF Len(items) = 1 THEN items[1].s
    ELSE items[1].s \o <<",", " ">> \o JoinFrom(Tail(items))

outOfStockCell(v) ==
    IF v.t = "array" THEN Str(JoinFrom(v.items)) ELSE OrEmpty(v)

\* new Date().toLocaleString('en-US', { timeZone: 'Asia/Jakarta', ... })
timestamp == Str(<<"timestamp">>)

\* const headerRow = [ 'Timestamp', 'Audit Date', ... ]
headerRow(version) ==
    IF version = "validating"
    THEN <<Str(<<"Timestamp">>), Str(<<"Audit Date">>),
           Str(<<"Employee Name">>), Str(<<"Store Location">>),
           Str(<<"Before Image">>), Str(<<"After Image">>),
           Str(<<"Visibility">>), Str(<<"Out of Stock Items">>),
           Str(<<"Notes">>), Str(<<"Form Title">>)>>
    ELSE <<Str(<<"Timestamp">>), Str(<<"Audit Date">>),
           Str(<<"Employee Name">>), Str(<<"Store Location">>),
           Str(<<"Before Image">>), Str(<<"After Image">>),
           Str(<<"Out of Stock Items">>), Str(<<"Notes">>),
           Str(<<"Form Title">>)>>

\* const rowData = [ timestamp, submissionData.audit_date || '', ... ]
rowData(version, submissionData, formTitle) ==
    IF version = "validating"
    THEN <<timestamp, OrEmpty(submissionData.audit_date),
           OrEmpty(submissionData.employee_name),
           OrEmpty(submissionData.store_location),
           getFileUrl(submissionData.before_image),
           getFileUrl(submissionData.after_image),
           OrEmpty(submissionData.visibility),
           outOfStockCell(submissionData.out_of_stock),
           OrEmpty(submissionData.notes), formTitle>>
    ELSE <<timestamp, OrEmpty(submissionData.audit_date),
           OrEmpty(submissionData.employee_name),
           OrEmpty(submissionData.store_location),
           getFileUrl(submissionData.before_image),
           getFileUrl(submissionData.after_image),
           outOfStockCell(submissionData.out_of_stock),
           OrEmpty(submissionData.notes), formTitle>>

\* the name of the data field each column of rowData is filled from
rowFields(version) ==
    IF version = "validating"
    THEN <<"timestamp", "audit_date", "employee_name", "store_location",
           "before_image", "after_image", "visibility", "out_of_stock",
           "notes", "formTitle">>
    ELSE <<"timestamp", "audit_date", "employee_name", "store_location",
           "before_image", "after_image", "out_of_stock", "notes",
           "formTitle">>

\* const formTitle = validatedData.formId || 'Form Submission'
formTitleOf(formId) ==
    IF formId # "" THEN Str(<<formId>>) ELSE Str(<<"Form Submission">>)

\* `${sheetName}!A:J` (A:I in the direct version)
defaultRange(version) ==
    IF version = "validating" THEN Str(<<"Submissions!A:J">>)
    ELSE Str(<<"Submissions!A:I">>)

\* the A1 notation of rows from..to of the sheet
rowsRange(version, from, to) ==
    Str(<<"Submissions!A", ToString(from),
          IF version = "validating" THEN ":J" ELSE ":I", ToString(to)>>)

\* errors of the Sheets API: error.code and whether error.message includes
\* 'Unable to parse range'
ApiOk == [code |-> 200, parseRange |-> FALSE]
ErrParseRange == [code |-> 400, parseRange |-> TRUE]
ErrBadRequest == [code |-> 400, parseRange |-> FALSE]
ErrUnavailable == [code |-> 503, parseRange |-> FALSE]
ErrAuth == [code |-> 401, parseRange |-> FALSE]

\* mutant: every failed append enters the recovery path
RecoveryEligible_Always(error) == TRUE

\* error?.code === 400 || error?.message?.includes('Unable to parse range')
RecoveryEligible(error) == error.code = 400 \/ error.parseRange

\* process.env.GOOGLE_SPREADSHEET_ID || process.env.GOOGLE_SHEETS_ID
HasSpreadsheetId(e) == e.spreadsheetId \/ e.sheetsId

HasCredentials(e) == e.clientEmail /\ e.privateKey

\* what spreadsheets.values.append can answer
AppendOutcomes(e, sh) ==
    IF ~HasCredentials(e) THEN {ErrAuth}
    ELSE IF ~sh.present THEN {ErrParseRange, ErrUnavailable}
    ELSE {ApiOk, ErrBadRequest, ErrUnavailable}

\* what spreadsheets.batchUpdate({ addSheet }) can answer
AddSheetOutcomes(e, sh) ==
    IF ~HasCredentials(e) THEN {ErrAuth}
    ELSE IF sh.present THEN {ErrBadRequest, ErrUnavailable}
    ELSE {ApiOk, ErrUnavailable}

\* what spreadsheets.values.batchUpdate (A1:J1 and A2:J2) can answer
BatchOutcomes(e, sh) ==
    IF ~HasCredentials(e) THEN {ErrAuth}
    ELSE IF ~sh.present THEN {ErrParseRange, ErrUnavailable}
    ELSE {ApiOk, ErrUnavailable}

\* a row of the sheet: its cells, and the request that wrote it (0: a row
\* that was there at the start)
SheetRow(cells, by) == [cells |-> cells, by |-> by]

\* the sheet after values.append with INSERT_ROWS
\* mutant: the appended row lands twice
AppendRow_Twice(sh, row) == [sh EXCEPT !.rows = Append(Append(@, row), row)]

AppendRow(sh, row) == [sh EXCEPT !.rows = Append(@, row)]

\* the sheet after addSheet
CreateSheet(sh) == [present |-> TRUE, rows |-> <<>>]

\* the sheet after values.batchUpdate of A1:J1 (header) and A2:J2 (row)
WriteTopRows(sh, header, row) ==
    [sh EXCEPT !.rows =
        [i \in 1..(IF Len(@) > 2 THEN Len(@) ELSE 2) |->
            IF i = 1 THEN header ELSE IF i = 2 THEN row ELSE @[i]]]

\* result.data of values.append: the written range is under updates
AppendData(range) ==
    [updatedRange |-> Undefined, updates |-> [updatedRange |-> range]]

\* result.data of values.batchUpdate: the written ranges are under responses
BatchData(r1, r2) ==
    [updatedRange |-> Undefined,
     responses |-> <<[updatedRange |-> r1], [updatedRange |-> r2]>>]

\* the oldest version of the writer: return result.data.updates?.updatedRange
updatesRange(d) ==
    IF "updates" \in DOMAIN d THEN d.updates.updatedRange ELSE Undefined

\* return result.data.updatedRange || `${sheetName}!A:J`
returnedRange(version, d) ==
    IF Truthy(d.updatedRange) THEN d.updatedRange ELSE defaultRange(version)

\* ------------------------------------------------------------ the state
VARIABLES
    env,        \* process.env: which of the four settings are present
    deployed,   \* the version of the submissions route that is running
    doc,        \* the 'Employees' and 'Stores' tabs of the spreadsheet
    sheet,      \* the 'Submissions' tab: present or not, and its rows
    body,       \* body[r]: the request body client r sends
    pc,         \* pc[r]: the await processSubmission of r is pending at
    fetched,    \* fetched[r]: outcome of r's fetchAllowedSheetData call
    row,        \* row[r]: rowData of r inside addToGoogleSheets
    calls,      \* calls[r]: Sheets API write calls r has issued so far
    errors,     \* errors[r]: how each of r's write calls was answered
    pres,       \* pres[r]: what processSubmission of r ended with
    resp,       \* resp[r]: the response the caller of r received
    gw,         \* the last reference data gateway exchange
    forms,      \* the Form table: forms[id]
    subs,       \* the Submission table
    lastApi,    \* the last exchange with the forms / submissions API
    calc,       \* the last evaluation of a function on an input
    builder,    \* FormBuilder: the field list being edited, and the clock
    appleForm   \* AppleStyleForm: its state hooks and its submit handler

\* the state of POST /api/submissions and of the spreadsheet
submissionVars ==
    <<env, deployed, doc, sheet, body, pc, fetched, row, calls, errors,
      pres, resp, gw>>

\* the database and the exchanges with the routes that read and write it
databaseVars == <<forms, subs, lastApi>>

\* the state of the function evaluations, of the form builder and of the
\* store audit form
clientVars == <<calc, builder, appleForm>>

vars == <<submissionVars, databaseVars, clientVars>>

\* ----------------------------------------------------------- the inputs
EnvOk ==
    [clientEmail |-> TRUE, privateKey |-> TRUE, spreadsheetId |-> TRUE,
     sheetsId |-> FALSE]
EnvNoKey == [EnvOk EXCEPT !.privateKey = FALSE]
EnvLegacyId == [EnvOk EXCEPT !.spreadsheetId = FALSE, !.sheetsId = TRUE]
EnvNoId == [EnvOk EXCEPT !.spreadsheetId = FALSE]
EnvChoices == {EnvOk, EnvNoKey, EnvLegacyId, EnvNoId}

Tab(rows) == [present |-> TRUE, rows |-> rows]
AbsentTab == [present |-> FALSE, rows |-> <<>>]

Token(x) == Str(<<x>>)

EmployeeRow(name) == [employee_id |-> Token("e"), name |-> name]
StoreRow(name, location) ==
    [store_id |-> Token("s"), name |-> name, location |-> location,
     region |-> Undefined, manager |-> Undefined]

EmployeeTabs ==
    {AbsentTab, Tab(<<>>), Tab(<<EmployeeRow(Str(S_JaneDoe))>>),
     Tab(<<EmployeeRow(Undefined), EmployeeRow(Str(<<>>)),
           EmployeeRow(Str(S_Blank)), EmployeeRow(Str(S_JaneDoeSpaced))>>)}

StoreTabs ==
    {AbsentTab, Tab(<<>>), Tab(<<StoreRow(Str(S_StoreA), Str(S_Jakarta))>>),
     Tab(<<StoreRow(Undefined, Str(S_Jakarta)),
           StoreRow(Str(S_Blank), Str(S_Jakarta)),
           StoreRow(Str(S_StoreA), Str(S_Blank)),
           StoreRow(Str(S_storeaSpaced), Undefined)>>)}

DocStandard ==
    [employees |-> Tab(<<EmployeeRow(Str(S_JaneDoe))>>),
     stores |-> Tab(<<StoreRow(Str(S_StoreA), Str(S_Jakarta))>>)]

DocChoices == [employees : EmployeeTabs, stores : StoreTabs]

\* the fate of the read calls of one gateway invocation
ApiFates == {"ok", "loadInfo", "getRows"}

Data(employee, store, notes) ==
    [audit_date |-> Undefined, employee_name |-> employee,
     store_location |-> store, before_image |-> Undefined,
     after_image |-> Undefined, visibility |-> Undefined,
     out_of_stock |-> Undefined, notes |-> notes]

\* a request body: not parseable as JSON, refused by submitFormSchema, or a
\* well-formed { formId, data }
NoRequest == [kind |-> "none", formId |-> "", data |-> Data(Undefined, Undefined, Undefined)]
BadJson == [kind |-> "badjson", formId |-> "", data |-> Data(Undefined, Undefined, Undefined)]
Invalid == [kind |-> "invalid", formId |-> "", data |-> Data(Undefined, Undefined, Undefined)]
Body(formId, data) == [kind |-> "ok", formId |-> formId, data |-> data]

\* a string of n characters "x"
Xs(n) == [i \in 1..n |-> "x"]
Spaces(n) == [i \in 1..n |-> " "]

EmployeeInputs ==
    {Undefined, Null, Num(7), Str(<<>>), Str(S_Blank), Str(S_JaneDoe),
     Str(S_janedoe), Str(S_JaneDoeSpaced), Str(S_JANEDOE),
     Str(S_JaneTabDoe), Str(S_JohnSmith)}

StoreInputs ==
    {Undefined, Null, Num(7), Str(<<>>), Str(S_Blank), Str(S_StoreA),
     Str(S_StoreAJakarta), Str(S_storeaSpaced), Str(S_STOREAJAKARTA),
     Str(S_StoreABandung), Str(S_DashJakarta), Str(S_StoreADash)}

NotesInputs ==
    {Undefined, Null, Num(7), Str(<<>>), Str(S_ok)}
    \cup {Str(Spaces(p) \o Xs(n) \o Spaces(q)) :
            p \in 0..MaxPad, q \in 0..MaxPad,
            n \in {NotesLimit - 1, NotesLimit, NotesLimit + 1}}

\* the bodies of the concurrent specification
SmallBodies ==
    <<Body("f1", Data(Str(S_JaneDoe), Str(S_StoreAJakarta), Str(S_ok))),
      Body("f1", Data(Str(S_JohnSmith), Str(S_StoreAJakarta), Str(S_ok))),
      Body("f2", Data(Undefined, Undefined, Undefined))>>

\* the requests are interchangeable: they are numbered in the order of
\* their bodies in SmallBodies
SmallWorkloads ==
    {[r \in Reqs |-> SmallBodies[idx[r]]] :
        idx \in {f \in [Reqs -> 1..Len(SmallBodies)] :
                   \A r, s \in Reqs : r < s => f[r] <= f[s]}}

\* the bodies of the single-request specification: one field ranges over
\* all its inputs while the other two range over a few
RichBodies ==
    {BadJson, Invalid}
    \cup {Body("f1", Data(e, s, n)) :
            e \in EmployeeInputs,
            s \in {Undefined, Str(S_StoreAJakarta), Str(S_StoreABandung)},
            n \in {Undefined, Str(S_ok), Num(7)}}
    \cup {Body("f1", Data(e, s, n)) :
            e \in {Undefined, Str(S_JaneDoeSpaced), Str(S_JohnSmith)},
            s \in StoreInputs,
            n \in {Undefined, Str(S_ok), Num(7)}}
    \cup {Body("f1", Data(e, s, n)) :
            e \in {Undefined, Str(S_JaneDoeSpaced), Str(S_JohnSmith)},
            s \in {Undefined, Str(S_StoreAJakarta), Str(S_StoreABandung)},
            n \in NotesInputs}
    \cup {Body("", Data(Undefined, Undefined, Undefined))}

OldRow ==
    SheetRow(<<timestamp, Str(<<>>), Str(S_JaneDoe), Str(S_StoreA), Str(<<>>),
               Str(<<>>), Str(<<>>), Str(<<>>), Str(<<>>), Token("f0")>>, 0)
OldRowOf(version) ==
    IF version = "validating" THEN OldRow
    ELSE SheetRow(SubSeq(OldRow.cells, 1, 9), 0)

\* the 'Submissions' tab at the start: absent, created by hand and empty,
\* or written by earlier submissions (header and up to MaxOldRows rows)
SheetChoices(version) ==
    {AbsentTab, Tab(<<>>)}
    \cup {Tab(<<SheetRow(headerRow(version), 0)>>
              \o [i \in 1..n |-> OldRowOf(version)]) : n \in 0..MaxOldRows}

NoCalls == [append |-> 0, addSheet |-> 0, batch |-> 0]
NotCalled == [code |-> 0, parseRange |-> FALSE]
NoErrors == [append |-> NotCalled, addSheet |-> NotCalled, batch |-> NotCalled]
NotFetched == [ok |-> FALSE, value |-> Undefined, error |-> "not called"]
NoExchange ==
    [kind |-> "none", type |-> "", options |-> Undefined,
     result |-> Undefined]

\* ---- the database
\* the users and the role each session carries (session.user.role)
UserIds == {"u1", "u2", "u3"}
RoleOf(u) == IF u = "u3" THEN "ADMIN" ELSE "USER"

\* await auth(): no session, or the session of a user
NoSession == [id |-> "", role |-> ""]
SessionOf(u) == [id |-> u, role |-> RoleOf(u)]
Sessions == {NoSession} \cup {SessionOf(u) : u \in UserIds}

Bool(b) == [t |-> "boolean", b |-> b]

\* fields of a form schema as they arrive in a request body
GoodField ==
    [id |-> Token("field_1"), type |-> "text", label |-> Token("Name")]
NoIdField == [GoodField EXCEPT !.id = Undefined]
NoLabelField == [GoodField EXCEPT !.label = Undefined]
EmptyLabelField == [GoodField EXCEPT !.label = Str(<<>>)]
OtherField ==
    [id |-> Token("field_2"), type |-> "number", label |-> Token("Count")]

SchemaOf(fields) == [t |-> "object", fields |-> fields]
GoodSchema == SchemaOf(<<GoodField>>)
GoodSchema2 == SchemaOf(<<GoodField, OtherField>>)
NoIdSchema == SchemaOf(<<GoodField, NoIdField>>)
NoLabelSchema == SchemaOf(<<NoLabelField>>)
EmptyLabelSchema == SchemaOf(<<EmptyLabelField>>)

\* a row of the Form table; an id is unused, stored or deleted (ids are
\* generated, a deleted id does not come back)
FormIds == {"f1", "f2"}
UnusedForm ==
    [status |-> "unused", createdById |-> "", title |-> Undefined,
     description |-> Null, isActive |-> FALSE, schema |-> Undefined]
DeletedForm == [UnusedForm EXCEPT !.status = "deleted"]
StoredForm(owner, title, description, isActive, schema) ==
    [status |-> "stored", createdById |-> owner, title |-> title,
     description |-> description, isActive |-> isActive, schema |-> schema]

FormsStandard ==
    [id \in FormIds |->
        IF id = "f1"
        THEN StoredForm("u1", Token("Audit"), Null, TRUE, GoodSchema)
        ELSE UnusedForm]

\* rows of the Submission table: userId is null for an anonymous one
Submission(id, formId, userId) ==
    [id |-> id, formId |-> formId, userId |-> userId]
SubsStandard ==
    {Submission("s1", "f1", "u1"), Submission("s2", "f1", "u2"),
     Submission("s3", "f1", ""), Submission("s4", "f2", "u1")}

\* responses of the forms and submissions routes
ApiResponse(status, error) ==
    [status |-> status, error |-> error, items |-> {}, id |-> ""]
NoApiExchange ==
    [kind |-> "none", session |-> NoSession, id |-> "",
     body |-> Undefined, result |-> ApiResponse(0, "none")]

NoCalc == [fn |-> "none", input |-> Undefined, output |-> Undefined]
NoBuilder == [fields |-> <<>>, clock |-> 0]

\* AppleStyleForm after its first render: the useState defaults of lines
\* 807-817, no run of onSubmit yet. at: where onSubmit is suspended; before,
\* after: beforeImageUrl and afterImageUrl of the run; fetches: the requests
\* the run has issued, with their answers; runs: the calls of onSubmit so far
NoAppleForm ==
    [submitting |-> FALSE, uploadingImages |-> FALSE,
     imagesUploaded |-> FALSE, savingToSheets |-> FALSE,
     beforeImageFile |-> Null, afterImageFile |-> Null,
     submissionError |-> Null,
     at |-> "idle", before |-> Str(<<>>), after |-> Str(<<>>),
     fetches |-> <<>>, runs |-> 0]

InitDatabase ==
    /\ forms = FormsStandard
    /\ subs = {s \in SubsStandard : forms[s.formId].status = "stored"}
    /\ lastApi = NoApiExchange

InitClient ==
    /\ calc = NoCalc
    /\ builder = NoBuilder
    /\ appleForm = NoAppleForm

InitRequests ==
    /\ pc = [r \in Reqs |-> IF body[r] = NoRequest THEN "none" ELSE "received"]
    /\ fetched = [r \in Reqs |-> NotFetched]
    /\ row = [r \in Reqs |-> <<>>]
    /\ calls = [r \in Reqs |-> NoCalls]
    /\ errors = [r \in Reqs |-> NoErrors]
    /\ pres = [r \in Reqs |-> NoResponse]
    /\ resp = [r \in Reqs |-> NoResponse]
    /\ gw = NoExchange

\* concurrent requests with a few bodies
Init ==
    /\ env \in {EnvOk, EnvNoId}
    /\ deployed \in Deployments
    /\ doc = DocStandard
    /\ sheet \in SheetChoices(deployed)
    /\ body \in SmallWorkloads
    /\ InitRequests
    /\ InitDatabase
    /\ InitClient

\* one request, with every input
InitInputs ==
    /\ \E setting \in (EnvChoices \X {DocStandard}) \cup ({EnvOk} \X DocChoices) :
         env = setting[1] /\ doc = setting[2]
    /\ deployed = "validating"
    /\ sheet \in {AbsentTab, Tab(<<SheetRow(headerRow(deployed), 0)>>)}
    /\ body \in {[r \in Reqs |-> IF r = 1 THEN b ELSE NoRequest] :
                   b \in RichBodies}
    /\ InitRequests
    /\ InitDatabase
    /\ InitClient

\* no submission, the reference data gateway alone
InitGateway ==
    /\ env \in EnvChoices
    /\ deployed \in Deployments
    /\ doc \in DocChoices
    /\ sheet = AbsentTab
    /\ body = [r \in Reqs |-> NoRequest]
    /\ InitRequests
    /\ InitDatabase
    /\ InitClient

\* ------------------------------------------------- POST /api/submissions
\* where a request stands after a synchronous stretch of the handler: its
\* next await (or "done"), the outcome of processSubmission, and rowData
Pending(at, cells) == [pc |-> at, resp |-> NoResponse, row |-> cells]
Ended(response) == [pc |-> "done", resp |-> response, row |-> <<>>]

\* addToGoogleSheets up to its first await, and what processSubmission
\* returns when it answers null at once
startWrite(e, version, formId, data) ==
    IF ~HasSpreadsheetId(e)
    THEN Ended(ErrorResponse(500, "SaveFailed"))
    ELSE Pending("append", rowData(version, data, formTitleOf(formId)))

\* processSubmission from the end of the allow-list block to the first
\* await of addToGoogleSheets
afterAllowLists(e, version, formId, step) ==
    IF step.resp # NoResponse THEN Ended(step.resp)
    ELSE LET notes == checkNotes(step.data)
         IN  IF notes.resp # NoResponse THEN Ended(notes.resp)
             ELSE startWrite(e, version, formId, notes.data)

\* processSubmission from the return of fetchAllowedSheetData on
afterFetch(e, version, formId, data, outcome) ==
    afterAllowLists(e, version, formId, checkAllowLists(data, outcome))

\* mutant: the outcome of processSubmission never reaches the caller
Advance_DropsAnswer(r, nxt) ==
    /\ pc' = [pc EXCEPT ![r] = nxt.pc]
    /\ row' = [row EXCEPT ![r] = nxt.row]
    /\ pres' = [pres EXCEPT ![r] = nxt.resp]
    /\ resp' = resp

\* mutant: the end of processSubmission answers the caller again
Advance_AnswersTwice(r, nxt) ==
    /\ pc' = [pc EXCEPT ![r] = nxt.pc]
    /\ row' = [row EXCEPT ![r] = nxt.row]
    /\ pres' = [pres EXCEPT ![r] = nxt.resp]
    /\ resp' = IF nxt.pc = "done"
               THEN [resp EXCEPT ![r] = nxt.resp]
               ELSE resp

\* the record of r takes the step nxt; the caller is answered when
\* processSubmission ends and the timer has not answered before
Advance(r, nxt) ==
    /\ pc' = [pc EXCEPT ![r] = nxt.pc]
    /\ row' = [row EXCEPT ![r] = nxt.row]
    /\ pres' = [pres EXCEPT ![r] = nxt.resp]
    /\ resp' = IF nxt.pc = "done" /\ resp[r] = NoResponse
               THEN [resp EXCEPT ![r] = nxt.resp]
               ELSE resp

\* request.json() and submitFormSchema.parse(body), then the handler up to
\* its next await
Parse(r) ==
    /\ pc[r] = "received"
    /\ Advance(r,
         CASE body[r].kind = "badjson" ->
                Ended(ErrorResponse(500, "Internal"))
           [] body[r].kind = "invalid" ->
                Ended(ErrorResponse(400, "InvalidFormData"))
           [] OTHER ->
                IF deployed = "direct"
                THEN startWrite(env, deployed, body[r].formId, body[r].data)
                ELSE IF NeedsFetch(body[r].data)
                THEN Pending("fetch", <<>>)
                ELSE afterAllowLists(env, deployed, body[r].formId,
                                     GoOn(body[r].data)))
    /\ UNCHANGED <<databaseVars, clientVars, env, deployed, doc, sheet, body, fetched, calls, errors,
                   gw>>

\* await fetchAllowedSheetData(...) returns or throws; the checks follow
FetchReturns(r) ==
    /\ pc[r] = "fetch"
    /\ \E api \in ApiFates :
         LET outcome ==
               fetchAllowedSheetData(FetchOptions(body[r].data), env, doc, api)
         IN  /\ fetched' = [fetched EXCEPT ![r] = outcome]
             /\ Advance(r, afterFetch(env, deployed, body[r].formId,
                                      body[r].data, outcome))
    /\ UNCHANGED <<databaseVars, clientVars, env, deployed, doc, sheet, body, calls, errors, gw>>

\* mutant: a null from the writer is not looked at
WriterReturns_IgnoresNull(range) ==
    Ended(Created(IF range = Null THEN Undefined ELSE range))

\* the writer's answer to processSubmission: a range, or null
WriterReturns(range) ==
    IF range = Null THEN Ended(ErrorResponse(500, "SaveFailed"))
    ELSE Ended(Created(range))

\* await sheets.spreadsheets.values.append(...)
AppendCall(r) ==
    /\ pc[r] = "append"
    /\ \E o \in AppendOutcomes(env, sheet) :
         /\ calls' = [calls EXCEPT ![r].append = @ + 1]
         /\ errors' = [errors EXCEPT ![r].append = o]
         /\ sheet' = IF o = ApiOk THEN AppendRow(sheet, SheetRow(row[r], r))
                     ELSE sheet
         /\ Advance(r,
              IF o = ApiOk
              THEN WriterReturns(returnedRange(deployed,
                     AppendData(rowsRange(deployed, Len(sheet.rows) + 1,
                                          Len(sheet.rows) + 1))))
              ELSE IF RecoveryEligible(o) THEN Pending("addSheet", row[r])
              ELSE WriterReturns(Null))
    /\ UNCHANGED <<databaseVars, clientVars, env, deployed, doc, body, fetched, gw>>

\* mutant: a failed addSheet is passed over and the header+row write follows
AddSheetCall_GoesOn(r) ==
    /\ pc[r] = "addSheet"
    /\ \E o \in AddSheetOutcomes(env, sheet) :
         /\ calls' = [calls EXCEPT ![r].addSheet = @ + 1]
         /\ errors' = [errors EXCEPT ![r].addSheet = o]
         /\ sheet' = IF o = ApiOk THEN CreateSheet(sheet) ELSE sheet
         /\ Advance(r, Pending("batch", row[r]))
    /\ UNCHANGED <<databaseVars, clientVars, env, deployed, doc, body, fetched, gw>>

\* await sheets.spreadsheets.batchUpdate({ addSheet })
AddSheetCall(r) ==
    /\ pc[r] = "addSheet"
    /\ \E o \in AddSheetOutcomes(env, sheet) :
         /\ calls' = [calls EXCEPT ![r].addSheet = @ + 1]
         /\ errors' = [errors EXCEPT ![r].addSheet = o]
         /\ sheet' = IF o = ApiOk THEN CreateSheet(sheet) ELSE sheet
         /\ Advance(r, IF o = ApiOk THEN Pending("batch", row[r])
                       ELSE WriterReturns(Null))
    /\ UNCHANGED <<databaseVars, clientVars, env, deployed, doc, body, fetched, gw>>

\* await sheets.spreadsheets.values.batchUpdate(header A1:J1, row A2:J2)
HeaderAndRowCall(r) ==
    /\ pc[r] = "batch"
    /\ \E o \in BatchOutcomes(env, sheet) :
         /\ calls' = [calls EXCEPT ![r].batch = @ + 1]
         /\ errors' = [errors EXCEPT ![r].batch = o]
         /\ sheet' = IF o = ApiOk
                     THEN WriteTopRows(sheet, SheetRow(headerRow(deployed), r),
                                       SheetRow(row[r], r))
                     ELSE sheet
         /\ Advance(r,
              IF o = ApiOk
              THEN WriterReturns(returnedRange(deployed,
                     BatchData(rowsRange(deployed, 1, 1),
                               rowsRange(deployed, 2, 2))))
              ELSE WriterReturns(Null))
    /\ UNCHANGED <<databaseVars, clientVars, env, deployed, doc, body, fetched, gw>>

\* the 50 s timer rejects timeoutPromise before processSubmission ends: the
\* caller gets 408, processSubmission goes on
Timeout(r) ==
    /\ pc[r] \notin {"none", "done"}
    /\ resp[r] = NoResponse
    /\ resp' = [resp EXCEPT ![r] = ErrorResponse(408, "Timeout")]
    /\ UNCHANGED <<databaseVars, clientVars, env, deployed, doc, sheet, body, pc, fetched, row,
                   calls, errors, pres, gw>>

\* ------------------------------------------------ reference data gateway
\* GET /api/sheets-data, with type=employees, type=stores or neither
SheetsDataGet ==
    /\ \E type \in {"employees", "stores", "all"}, api \in ApiFates :
         gw' = [kind |-> "GET", type |-> type, options |-> Undefined,
                result |-> sheetsDataGET(type, env, doc, api)]
    /\ UNCHANGED <<databaseVars, clientVars, env, deployed, doc, sheet, body, pc, fetched, row,
                   calls, errors, pres, resp>>

\* fetchAllowedSheetData called with any options
FetchAllowedCall ==
    /\ \E options \in [includeEmployees : BOOLEAN, includeStores : BOOLEAN],
          api \in ApiFates :
         gw' = [kind |-> "fetch", type |-> "", options |-> options,
                result |-> fetchAllowedSheetData(options, env, doc, api)]
    /\ UNCHANGED <<databaseVars, clientVars, env, deployed, doc, sheet, body, pc, fetched, row,
                   calls, errors, pres, resp>>

\* -------------------------------------- forms and submissions routes
\* prisma.form.findUnique / findFirst by id
FindForm(fs, id) ==
    IF id \in DOMAIN fs /\ fs[id].status = "stored" THEN fs[id] ELSE Null

\* form.createdById !== session.user.id && session.user.role !== "ADMIN"
PermissionDenied(form, session) ==
    form.createdById # session.id /\ session.role # "ADMIN"

\* the where clause { id, OR: [{ createdById }, ...(ADMIN ? [{}] : [])] }
\* (an empty condition holds of every row)
AccessibleForm(fs, id, session) ==
    LET form == FindForm(fs, id)
    IN  IF form = Null THEN Null
        ELSE IF form.createdById = session.id \/ session.role = "ADMIN"
        THEN form
        ELSE Null

\* mutant: the formId filter applied without looking up the form
submissionsGET_NoAccessCheck(session, formId, fs, ss) ==
    IF session.id = "" THEN ApiResponse(401, "Unauthorized")
    ELSE IF formId # ""
    THEN [ApiResponse(200, "none") EXCEPT
            !.items = {s \in ss : s.formId = formId}]
    ELSE [ApiResponse(200, "none") EXCEPT
            !.items = {s \in ss :
                         \/ s.userId = session.id
                         \/ /\ FindForm(fs, s.formId) # Null
                            /\ fs[s.formId].createdById = session.id}]

\* GET /api/submissions?formId=
submissionsGET(session, formId, fs, ss) ==
    IF session.id = "" THEN ApiResponse(401, "Unauthorized")
    ELSE IF formId # ""
    THEN IF AccessibleForm(fs, formId, session) = Null
         THEN ApiResponse(404, "FormNotFoundOrDenied")
         ELSE [ApiResponse(200, "none") EXCEPT
                 !.items = {s \in ss : s.formId = formId}]
    ELSE [ApiResponse(200, "none") EXCEPT
            !.items = {s \in ss :
                         \/ s.userId = session.id
                         \/ /\ FindForm(fs, s.formId) # Null
                            /\ fs[s.formId].createdById = session.id}]

\* formFieldSchema: id a string, type of the enum, label a string of
\* length >= 1
FieldTypes ==
    {"text", "textarea", "select", "checkbox", "radio", "file", "date",
     "email", "number"}
FieldOk(f) ==
    /\ typeof(f.id) = "string"
    /\ f.type \in FieldTypes
    /\ typeof(f.label) = "string"
    /\ Len(f.label.s) >= 1

\* formSchemaSchema.parse succeeds
SchemaOk(schema) ==
    /\ schema.t = "object"
    /\ \A i \in 1..Len(schema.fields) : FieldOk(schema.fields[i])

\* createFormSchema.parse succeeds
CreateBodyOk(b) ==
    /\ typeof(b.title) = "string"
    /\ Len(b.title.s) >= 1
    /\ b.description = Undefined \/ typeof(b.description) = "string"
    /\ SchemaOk(b.schema)
    /\ b.isActive = Undefined \/ b.isActive.t = "boolean"

\* the id prisma gives to a new row
NewFormId(fs) == CHOOSE id \in FormIds : fs[id].status = "unused"

\* the outcome of a route that writes: the response and the tables
Outcome(response, fs, ss) == [result |-> response, forms |-> fs, subs |-> ss]

\* POST /api/forms
formPOST(session, b, fs, ss) ==
    IF session.id = "" THEN Outcome(ApiResponse(401, "Unauthorized"), fs, ss)
    ELSE IF b.kind = "badjson"
    THEN Outcome(ApiResponse(500, "Internal"), fs, ss)
    ELSE IF ~CreateBodyOk(b)
    THEN Outcome(ApiResponse(400, "InvalidFormData"), fs, ss)
    ELSE LET id == NewFormId(fs)
         IN  Outcome([ApiResponse(201, "none") EXCEPT !.id = id],
                     [fs EXCEPT ![id] =
                        StoredForm(session.id, b.title,
                                   IF Truthy(b.description)
                                   THEN b.description ELSE Null,
                                   IF b.isActive = Undefined THEN TRUE
                                   ELSE b.isActive.b,
                                   b.schema)],
                     ss)

\* mutant: the attributes absent from the body are cleared
updateData_ReplacesAll(form, b) ==
    [form EXCEPT
       !.title = b.title,
       !.description = b.description,
       !.isActive = IF b.isActive # Undefined THEN b.isActive.b ELSE FALSE,
       !.schema = IF b.schema # Undefined THEN b.schema ELSE @]

\* const updateData = {}; if (body.x !== undefined) updateData.x = body.x
updateData(form, b) ==
    [form EXCEPT
       !.title = IF b.title # Undefined THEN b.title ELSE @,
       !.description = IF b.description # Undefined THEN b.description ELSE @,
       !.isActive = IF b.isActive # Undefined THEN b.isActive.b ELSE @,
       !.schema = IF b.schema # Undefined THEN b.schema ELSE @]

\* mutant: the permission check left out of PATCH
formPATCH_NoPermissionCheck(session, id, b, fs, ss) ==
    IF session.id = "" THEN Outcome(ApiResponse(401, "Unauthorized"), fs, ss)
    ELSE IF FindForm(fs, id) = Null
    THEN Outcome(ApiResponse(404, "FormNotFound"), fs, ss)
    ELSE IF b.kind = "badjson"
    THEN Outcome(ApiResponse(500, "Internal"), fs, ss)
    ELSE Outcome([ApiResponse(200, "none") EXCEPT !.id = id],
                 [fs EXCEPT ![id] = updateData(@, b)], ss)

\* PATCH /api/forms/{id}
formPATCH(session, id, b, fs, ss) ==
    IF session.id = "" THEN Outcome(ApiResponse(401, "Unauthorized"), fs, ss)
    ELSE IF FindForm(fs, id) = Null
    THEN Outcome(ApiResponse(404, "FormNotFound"), fs, ss)
    ELSE IF PermissionDenied(fs[id], session)
    THEN Outcome(ApiResponse(403, "PermissionDenied"), fs, ss)
    ELSE IF b.kind = "badjson"
    THEN Outcome(ApiResponse(500, "Internal"), fs, ss)
    ELSE Outcome([ApiResponse(200, "none") EXCEPT !.id = id],
                 [fs EXCEPT ![id] = updateData(@, b)], ss)

\* the Submission table after the form id is deleted (the deletion of a
\* form cascades to its submissions)
DeleteCascade(ss, id) == {s \in ss : s.formId # id}

\* DELETE /api/forms/{id}
formDELETE(session, id, fs, ss) ==
    IF session.id = "" THEN Outcome(ApiResponse(401, "Unauthorized"), fs, ss)
    ELSE IF FindForm(fs, id) = Null
    THEN Outcome(ApiResponse(404, "FormNotFound"), fs, ss)
    ELSE IF PermissionDenied(fs[id], session)
    THEN Outcome(ApiResponse(403, "PermissionDenied"), fs, ss)
    ELSE Outcome([ApiResponse(200, "none") EXCEPT !.id = id],
                 [fs EXCEPT ![id] = DeletedForm], DeleteCascade(ss, id))

\* request bodies of PATCH and POST
FormBody(title, description, isActive, schema) ==
    [kind |-> "ok", title |-> title, description |-> description,
     isActive |-> isActive, schema |-> schema]
BadJsonBody ==
    [FormBody(Undefined, Undefined, Undefined, Undefined) EXCEPT
       !.kind = "badjson"]
NoBody == [BadJsonBody EXCEPT !.kind = "none"]

PatchBodies ==
    {BadJsonBody,
     FormBody(Undefined, Undefined, Undefined, Undefined),
     FormBody(Undefined, Undefined, Bool(FALSE), Undefined),
     FormBody(Undefined, Undefined, Bool(TRUE), Undefined),
     FormBody(Token("Audit 2"), Token("weekly"), Undefined, GoodSchema2),
     FormBody(Undefined, Undefined, Undefined, NoIdSchema),
     FormBody(Undefined, Undefined, Undefined, EmptyLabelSchema)}

CreateBodies ==
    {BadJsonBody,
     FormBody(Token("Visit"), Token("daily"), Undefined, GoodSchema),
     FormBody(Undefined, Undefined, Undefined, GoodSchema),
     FormBody(Token("Visit"), Undefined, Undefined, Undefined),
     FormBody(Token("Visit"), Undefined, Undefined, NoIdSchema),
     FormBody(Token("Visit"), Undefined, Undefined, NoLabelSchema),
     FormBody(Token("Visit"), Undefined, Undefined, EmptyLabelSchema)}

\* ids a caller may name: the ids of FormIds and one that was never given
NamedIds == FormIds \cup {"f9"}

Exchange(kind, session, id, b, response) ==
    [kind |-> kind, session |-> session, id |-> id, body |-> b,
     result |-> response]

SubmissionsGet(session, formId) ==
    /\ lastApi' = Exchange("GET submissions", session, formId, NoBody,
                           submissionsGET(session, formId, forms, subs))
    /\ UNCHANGED <<submissionVars, clientVars, forms, subs>>

\* the tables and the exchange after a route that writes
Written(kind, session, id, b, outcome) ==
    /\ lastApi' = Exchange(kind, session, id, b, outcome.result)
    /\ forms' = outcome.forms
    /\ subs' = outcome.subs

FormCreate(session, b) ==
    /\ \E id \in FormIds : forms[id].status = "unused"
    /\ Written("POST forms", session, "", b,
               formPOST(session, b, forms, subs))
    /\ UNCHANGED <<submissionVars, clientVars>>

FormPatch(session, id, b) ==
    /\ Written("PATCH forms", session, id, b,
               formPATCH(session, id, b, forms, subs))
    /\ UNCHANGED <<submissionVars, clientVars>>

FormDelete(session, id) ==
    /\ Written("DELETE forms", session, id, NoBody,
               formDELETE(session, id, forms, subs))
    /\ UNCHANGED <<submissionVars, clientVars>>

\* ------------------------------------------ file-URL flattening inputs
NotApplied == [t |-> "not applied"]

FileElements ==
    {Str(<<"a">>), Str(<<"b">>), FileObj(Str(<<"a">>)), FileObj(Undefined),
     Null, Undefined}

FileInputs ==
    {Undefined, Null, Str(<<>>), Str(<<"x">>), Num(0), Num(5),
     Bool(TRUE), Bool(FALSE),
     FileObj(Str(<<"x">>)), FileObj(Str(<<>>)), FileObj(Undefined),
     FileObj(Num(5)), Arr(<<>>)}
    \cup {Arr(<<e>>) : e \in FileElements}
    \cup {Arr(<<e1, e2>>) : e1 \in FileElements, e2 \in FileElements}

\* getFileUrl(submissionData.before_image)
GetFileUrlCall ==
    /\ calc.fn = "getFileUrl"
    /\ calc.output = NotApplied
    /\ calc' = [calc EXCEPT !.output = getFileUrl(calc.input)]
    /\ UNCHANGED <<submissionVars, databaseVars, builder, appleForm>>

\* ---------------------------------------- public form renderer validator
Digits == <<"0", "1", "2", "3", "4", "5", "6", "7", "8", "9">>
IsDigit(c) == \E i \in 1..Len(Digits) : Digits[i] = c
DigitValue(c) == (CHOOSE i \in 1..Len(Digits) : Digits[i] = c) - 1
AllDigits(s) == s # <<>> /\ \A i \in 1..Len(s) : IsDigit(s[i])

RECURSIVE DigitsValue(_)
DigitsValue(s) ==
    IF s = <<>> THEN 0
    ELSE 10 * DigitsValue(SubSeq(s, 1, Len(s) - 1)) + DigitValue(s[Len(s)])

NaN == [t |-> "NaN"]

\* Number(value) of a string, as z.coerce.number() applies it (decimal
\* integers with an optional sign; white space is trimmed, '' is 0)
StringToNumber(s) ==
    LET u == trim(s)
    IN  IF u = <<>> THEN Num(0)
        ELSE IF AllDigits(u) THEN Num(DigitsValue(u))
        ELSE IF u[1] = "-" /\ AllDigits(Tail(u)) THEN Num(0 - DigitsValue(Tail(u)))
        ELSE IF u[1] = "+" /\ AllDigits(Tail(u)) THEN Num(DigitsValue(Tail(u)))
        ELSE NaN

\* the test of z.string().email(): one '@' after a local part, a domain with
\* a dot inside it, no white space
IsEmail(s) ==
    /\ \A i \in 1..Len(s) : s[i] \notin WhiteSpace
    /\ Cardinality({i \in 1..Len(s) : s[i] = "@"}) = 1
    /\ LET at == CHOOSE i \in 1..Len(s) : s[i] = "@"
       IN  /\ at > 1
           /\ \E j \in (at + 2)..(Len(s) - 1) : s[j] = "."

FormField(id, type, required, multiple) ==
    [id |-> id, type |-> type, required |-> required, multiple |-> multiple]

NoIssue == "none"
ErrInvalidType == "invalid type"
ErrEmailMessage == "Please enter a valid email address"
ErrRequiredMessage == "This field is required"
ErrSelectOne == "At least one option must be selected"

\* fieldSchema of a required multiple checkbox is
\* z.array(z.string()).default([]), which has no method min: building the
\* validator throws
SchemaThrows(field) ==
    field.type = "checkbox" /\ field.multiple /\ field.required

\* the first issue fieldSchema reports on a value
fieldSchema(field, value) ==
    IF ~field.required /\ value = Undefined THEN NoIssue
    ELSE IF field.type = "email" THEN
        IF typeof(value) # "string" THEN ErrInvalidType
        ELSE IF ~IsEmail(value.s) THEN ErrEmailMessage
        ELSE IF field.required /\ Len(value.s) < 1 THEN ErrRequiredMessage
        ELSE NoIssue
    ELSE IF field.type = "number" THEN
        IF typeof(value) # "string" \/ StringToNumber(value.s) = NaN
        THEN ErrInvalidType
        ELSE IF field.required /\ StringToNumber(value.s).n < 1
        THEN ErrRequiredMessage
        ELSE NoIssue
    ELSE IF field.type = "checkbox" THEN
        IF field.multiple THEN
            IF value.t \notin {"array", "undefined"} THEN ErrInvalidType
            ELSE NoIssue
        ELSE IF typeof(value) # "boolean" THEN ErrInvalidType
        ELSE IF field.required /\ value # Bool(TRUE) THEN ErrRequiredMessage
        ELSE NoIssue
    ELSE IF typeof(value) # "string" THEN ErrInvalidType
    ELSE IF field.required /\ Len(value.s) < 1 THEN ErrRequiredMessage
    ELSE NoIssue

\* zodResolver(validationSchema) applied to the record: values[i] is the
\* entry of the record under fields[i].id
validationSchema(fields, values) ==
    IF \E i \in 1..Len(fields) : SchemaThrows(fields[i])
    THEN [thrown |-> TRUE, errors |-> {}]
    ELSE [thrown |-> FALSE,
          errors |-> {[id |-> fields[i].id,
                       message |-> fieldSchema(fields[i], values[i])] :
                      i \in {j \in 1..Len(fields) :
                                fieldSchema(fields[j], values[j]) # NoIssue}}]

\* defaultValues: [] or false for a checkbox, '' otherwise
defaultValue(field) ==
    IF field.type = "checkbox"
    THEN IF field.multiple THEN Arr(<<>>) ELSE Bool(FALSE)
    ELSE Str(<<>>)

FieldIdAt(i) == <<"a", "b", "c", "d">>[i]

FieldKinds ==
    {FormField("", type, required, FALSE) :
        type \in {"text", "email", "number"}, required \in BOOLEAN}
    \cup {FormField("", "checkbox", required, multiple) :
             required \in BOOLEAN, multiple \in BOOLEAN}

TypedStrings ==
    {<<>>, <<"x">>, <<"a", "@", "b", ".", "c">>, <<"0">>, <<"7">>,
     <<"-", "5">>, <<"1", "2">>, <<" ">>}

\* the values the control of a field puts in the record
ValuesOf(field) ==
    IF field.type = "checkbox"
    THEN IF field.multiple
         THEN {Arr(<<>>), Arr(<<Str(<<"x">>)>>)}
         ELSE {Bool(TRUE), Bool(FALSE)}
    ELSE {Str(s) : s \in TypedStrings}

AllValues == UNION {ValuesOf(kind) : kind \in FieldKinds}

\* a field list with the ids a, b, ... and a record its controls can produce
ValidatorInput(kinds, values) ==
    [fields |-> [i \in DOMAIN kinds |-> [kinds[i] EXCEPT !.id = FieldIdAt(i)]],
     values |-> values]

\* handleSubmit runs the resolver on the record
ValidateCall ==
    /\ calc.fn = "validationSchema"
    /\ calc.output = NotApplied
    /\ calc' = [calc EXCEPT
                 !.output = validationSchema(calc.input.fields,
                                             calc.input.values)]
    /\ UNCHANGED <<submissionVars, databaseVars, builder, appleForm>>

\* ------------------------------------------------------- form builder
BuilderLabels == {<<>>, <<"Notes">>, <<"Price">>}

\* `field_${Date.now()}`
FieldIdOf(now) == <<"field_", now>>

\* Date.now() moves on
ClockTick ==
    /\ builder.clock < MaxClock
    /\ builder' = [builder EXCEPT !.clock = @ + 1]
    /\ UNCHANGED <<submissionVars, databaseVars, calc, appleForm>>

\* const addField = (field) => fields: [...prev.fields, field]
addField(fields, field) == Append(fields, field)

\* const updateField = (index, field) => prev.fields.map(...)
updateField(fields, index, field) ==
    [i \in 1..Len(fields) |-> IF i = index THEN field ELSE fields[i]]

\* const removeField = (index) => prev.fields.filter((_, i) => i !== index)
removeField(fields, index) ==
    [i \in 1..(Len(fields) - 1) |->
        IF i < index THEN fields[i] ELSE fields[i + 1]]

\* newFields.splice(at, 0, field)
InsertAt(fields, at, field) ==
    SubSeq(fields, 1, at - 1) \o <<field>> \o SubSeq(fields, at, Len(fields))

\* const moveField = (from, to) => splice out, splice in
moveField(fields, from, to) ==
    InsertAt(removeField(fields, from), to, fields[from])

\* handleAddField with newField = { type: 'text', label, required: false }
HandleAddField(label) ==
    /\ label # <<>>
    /\ Len(builder.fields) < MaxBuilt
    /\ builder' = [builder EXCEPT
                     !.fields = addField(@, [id |-> FieldIdOf(builder.clock),
                                             label |-> label,
                                             required |-> FALSE])]
    /\ UNCHANGED <<submissionVars, databaseVars, calc, appleForm>>

\* handleUpdateField(index, { label }) and handleUpdateField(index,
\* { required })
HandleUpdateField(index, label, required) ==
    /\ index \in 1..Len(builder.fields)
    /\ builder' = [builder EXCEPT
                     !.fields = updateField(@, index,
                                            [builder.fields[index] EXCEPT
                                               !.label = label,
                                               !.required = required])]
    /\ UNCHANGED <<submissionVars, databaseVars, calc, appleForm>>

\* onRemoveField(index)
RemoveField(index) ==
    /\ index \in 1..Len(builder.fields)
    /\ builder' = [builder EXCEPT !.fields = removeField(@, index)]
    /\ UNCHANGED <<submissionVars, databaseVars, calc, appleForm>>

\* onMoveField(from, to)
MoveField(from, to) ==
    /\ from \in 1..Len(builder.fields)
    /\ to \in 1..Len(builder.fields)
    /\ from # to
    /\ builder' = [builder EXCEPT !.fields = moveField(@, from, to)]
    /\ UNCHANGED <<submissionVars, databaseVars, calc, appleForm>>

\* ------------------------------------------- AppleStyleForm: submit at once
\* how many times the form is submitted
MaxRuns == 2

\* the File the user picked for an image field
ImageFile == [t |-> "File"]

\* the url of the body POST /upload answers with on success
UploadUrls == {Str(<<"u">>), Str(<<"v">>)}

\* the Error the catch block of onSubmit shows
ErrorOf(message) == [t |-> "Error", message |-> message]

\* a request of the handler that is not answered yet
UploadFetch(fieldName) ==
    [url |-> "/api/upload", fieldId |-> fieldName, body |-> Undefined,
     answer |-> "pending", result |-> Undefined]

\* JSON.stringify({formId, data: submissionData}): of the answers in data
\* only the two image fields are kept
SubmissionFetch(beforeImageUrl, afterImageUrl) ==
    [url |-> "/api/submissions", fieldId |-> "",
     body |-> [formId |-> "merchandising-day-vol-2",
               before_image |-> beforeImageUrl,
               after_image |-> afterImageUrl],
     answer |-> "pending", result |-> Undefined]

\* handleImageSelect: the inputs are disabled while submitting; a file that
\* is not an image is refused
HandleImageSelect(fieldName, isImage) ==
    /\ ~appleForm.submitting
    /\ appleForm' =
         IF ~isImage THEN appleForm
         ELSE IF fieldName = "before_image"
              THEN [appleForm EXCEPT !.beforeImageFile = ImageFile]
              ELSE [appleForm EXCEPT !.afterImageFile = ImageFile]
    /\ UNCHANGED <<submissionVars, databaseVars, calc, builder>>

\* the finally block with setSavingToSheets(true) left behind
finally_KeepsSaving(f) ==
    [f EXCEPT !.submitting = FALSE, !.uploadingImages = FALSE,
              !.imagesUploaded = FALSE, !.at = "idle"]

\* the finally block of onSubmit
finally(f) ==
    [f EXCEPT !.submitting = FALSE, !.uploadingImages = FALSE,
              !.imagesUploaded = FALSE, !.savingToSheets = FALSE,
              !.at = "idle"]

\* the catch block of onSubmit
catch(f, message) == [f EXCEPT !.submissionError = ErrorOf(message)]

\* uploadImageDuringSubmission up to its await fetch
uploadImageDuringSubmission(f, fieldName) ==
    [f EXCEPT !.at = fieldName,
              !.fetches = Append(@, UploadFetch(fieldName))]

\* "Now save to sheets", up to the await fetch of the submission
saveToSheets(f) ==
    [f EXCEPT !.savingToSheets = TRUE, !.at = "submissions",
              !.fetches = Append(@, SubmissionFetch(f.before, f.after))]

\* the answer to the request the handler waits for is written to the log
Resumed(f, answer, result) ==
    [f EXCEPT !.fetches[Len(f.fetches)].answer = answer,
              !.fetches[Len(f.fetches)].result = result]

\* onSubmit from its call to its first await; the submit button is disabled
\* while submitting
OnSubmit ==
    /\ ~appleForm.submitting
    /\ appleForm.runs < MaxRuns
    /\ LET started == [appleForm EXCEPT
                          !.submitting = TRUE, !.submissionError = Null,
                          !.uploadingImages = FALSE,
                          !.imagesUploaded = FALSE,
                          !.savingToSheets = FALSE,
                          !.before = Str(<<>>), !.after = Str(<<>>),
                          !.fetches = <<>>, !.runs = @ + 1]
           uploading == [started EXCEPT !.uploadingImages = TRUE]
       IN  appleForm' =
             IF started.beforeImageFile # Null
             THEN uploadImageDuringSubmission(uploading, "before_image")
             ELSE IF started.afterImageFile # Null
             THEN uploadImageDuringSubmission(uploading, "after_image")
             ELSE saveToSheets(started)
    /\ UNCHANGED <<submissionVars, databaseVars, calc, builder>>

\* the await of an upload resumes: response.ok or not, and result.url
UploadAnswered(ok, url) ==
    /\ appleForm.at \in {"before_image", "after_image"}
    /\ LET refused == Resumed(appleForm, "failed", Undefined)
           got == [Resumed(appleForm, "ok", url) EXCEPT
                      ![IF appleForm.at = "before_image"
                        THEN "before" ELSE "after"] = url]
       IN  appleForm' =
             IF ~ok THEN finally(catch(refused, "Upload failed"))
             ELSE IF appleForm.at = "before_image"
                     /\ appleForm.afterImageFile # Null
             THEN uploadImageDuringSubmission(got, "after_image")
             ELSE [got EXCEPT !.uploadingImages = FALSE,
                              !.imagesUploaded = TRUE, !.at = "delay"]
    /\ UNCHANGED <<submissionVars, databaseVars, calc, builder>>

\* the 500 ms of "upload success feedback" are over
DelayElapsed ==
    /\ appleForm.at = "delay"
    /\ appleForm' = saveToSheets(appleForm)
    /\ UNCHANGED <<submissionVars, databaseVars, calc, builder>>

\* the await of the submission resumes: response.ok or not
SubmissionAnswered(ok) ==
    /\ appleForm.at = "submissions"
    /\ appleForm' =
         IF ok
         THEN finally([Resumed(appleForm, "ok", Undefined) EXCEPT
                          !.submissionError = Null,
                          !.beforeImageFile = Null,
                          !.afterImageFile = Null])
         ELSE finally(catch(Resumed(appleForm, "failed", Undefined),
                            "We couldn't submit the form."))
    /\ UNCHANGED <<submissionVars, databaseVars, calc, builder>>

\* ----------------------------------------------------- specifications
Next ==
    \E r \in Reqs :
        \/ Parse(r)
        \/ FetchReturns(r)
        \/ AppendCall(r)
        \/ AddSheetCall(r)
        \/ HeaderAndRowCall(r)
        \/ Timeout(r)

NextGateway == SheetsDataGet \/ FetchAllowedCall

\* concurrent submissions
Spec == Init /\ [][Next]_vars

\* one submission, every input
SpecInputs == InitInputs /\ [][Next]_vars

\* the timer of a request that has no answer yet fires in the end:
\* setTimeout(() => reject(new Error('Request timeout')), 50000)
SpecInputsTimed == SpecInputs /\ \A r \in Reqs : WF_vars(Timeout(r))

\* the reference data gateway
SpecGateway == InitGateway /\ [][NextGateway]_vars

\* GET /api/submissions over every database
InitAccess ==
    /\ env = EnvOk
    /\ deployed = "validating"
    /\ doc = DocStandard
    /\ sheet = AbsentTab
    /\ body = [r \in Reqs |-> NoRequest]
    /\ InitRequests
    /\ \E owner \in {"u1", "u3"}, second \in {UnusedForm, DeletedForm,
                         StoredForm("u2", Token("Stock"), Null, TRUE,
                                    GoodSchema2)} :
         forms = [id \in FormIds |->
                    IF id = "f1"
                    THEN StoredForm(owner, Token("Audit"), Null, TRUE,
                                    GoodSchema)
                    ELSE second]
    /\ subs \in SUBSET {s \in SubsStandard : forms[s.formId].status = "stored"}
    /\ lastApi = NoApiExchange
    /\ InitClient

NextAccess ==
    \E session \in Sessions, formId \in NamedIds \cup {""} :
        SubmissionsGet(session, formId)

SpecAccess == InitAccess /\ [][NextAccess]_vars

\* the routes that write the Form table
InitForms ==
    /\ env = EnvOk
    /\ deployed = "validating"
    /\ doc = DocStandard
    /\ sheet = AbsentTab
    /\ body = [r \in Reqs |-> NoRequest]
    /\ InitRequests
    /\ InitDatabase
    /\ InitClient

NextForms ==
    \E session \in Sessions :
        \/ \E b \in CreateBodies : FormCreate(session, b)
        \/ \E id \in FormIds, b \in PatchBodies : FormPatch(session, id, b)
        \/ \E id \in FormIds : FormDelete(session, id)

SpecForms == InitForms /\ [][NextForms]_vars

\* submissions to a form that its owner activates and deactivates
InitGate ==
    /\ env = EnvOk
    /\ deployed \in Deployments
    /\ doc = DocStandard
    /\ sheet \in {AbsentTab,
                  Tab(<<SheetRow(headerRow(deployed), 0), OldRowOf(deployed)>>)}
    /\ body = [r \in Reqs |-> SmallBodies[1]]
    /\ InitRequests
    /\ \E active \in BOOLEAN :
         forms = [FormsStandard EXCEPT !["f1"].isActive = active]
    /\ subs = {}
    /\ lastApi = NoApiExchange
    /\ InitClient

NextGate ==
    \/ Next
    \/ \E active \in BOOLEAN :
         FormPatch(SessionOf("u1"), "f1",
                   FormBody(Undefined, Undefined, Bool(active), Undefined))

SpecGate == InitGate /\ [][NextGate]_vars

\* the pure functions applied to inputs drawn at the start
InitIdle ==
    /\ env = EnvOk
    /\ deployed = "validating"
    /\ doc = DocStandard
    /\ sheet = AbsentTab
    /\ body = [r \in Reqs |-> NoRequest]
    /\ InitRequests
    /\ InitDatabase

InitFunctions ==
    /\ InitIdle
    /\ builder = NoBuilder
    /\ appleForm = NoAppleForm
    /\ \/ \E v \in FileInputs :
            calc = [fn |-> "getFileUrl", input |-> v, output |-> NotApplied]
       \/ \E n \in 1..MaxFormFields :
            \E kinds \in [1..n -> FieldKinds], values \in [1..n -> AllValues] :
                /\ \A i \in 1..n : values[i] \in ValuesOf(kinds[i])
                /\ calc = [fn |-> "validationSchema",
                           input |-> ValidatorInput(kinds, values),
                           output |-> NotApplied]

NextFunctions == GetFileUrlCall \/ ValidateCall

SpecFunctions == InitFunctions /\ [][NextFunctions]_vars

\* the form builder from an empty field list
InitBuilder ==
    /\ InitIdle
    /\ InitClient

NextBuilder ==
    \/ ClockTick
    \/ \E label \in BuilderLabels : HandleAddField(label)
    \/ \E index \in 1..MaxBuilt, label \in BuilderLabels \ {<<>>},
         required \in BOOLEAN :
         HandleUpdateField(index, label, required)
    \/ \E index \in 1..MaxBuilt : RemoveField(index)
    \/ \E from \in 1..MaxBuilt, to \in 1..MaxBuilt : MoveField(from, to)

SpecBuilder == InitBuilder /\ [][NextBuilder]_vars

\* the store audit form: images are picked, the form is submitted
InitSubmit ==
    /\ InitIdle
    /\ InitClient

NextSubmit ==
    \/ \E fieldName \in {"before_image", "after_image"}, isImage \in BOOLEAN :
         HandleImageSelect(fieldName, isImage)
    \/ OnSubmit
    \/ \E ok \in BOOLEAN, url \in UploadUrls : UploadAnswered(ok, url)
    \/ DelayElapsed
    \/ \E ok \in BOOLEAN : SubmissionAnswered(ok)

SpecSubmit == InitSubmit /\ [][NextSubmit]_vars

\* ------------------------------------------------------------ the claims
\* the comparison key in the words of the specification: lowercased,
\* trimmed, every run of white space collapsed to one space
KeyOf(s) == collapseWhitespace(trim(toLowerCase(s)))

NonBlank(s) == trim(s) # <<>>

IsText(v) == v.t = "string"

\* v has the key of some non-empty name of the 'Employees' tab
EmployeeListed(v) ==
    \E i \in 1..Len(doc.employees.rows) :
        LET name == doc.employees.rows[i].name
        IN  IsText(name) /\ name.s # <<>> /\ KeyOf(name.s) = KeyOf(v.s)

\* v has the key of the bare name of some store, or of "{name} - {location}"
\* of a store whose name and location are not blank
StoreListed(v) ==
    \E i \in 1..Len(doc.stores.rows) :
        LET st == doc.stores.rows[i]
        IN  /\ IsText(st.name)
            /\ \/ KeyOf(st.name.s) = KeyOf(v.s)
               \/ /\ NonBlank(st.name.s)
                  /\ IsText(st.location)
                  /\ NonBlank(st.location.s)
                  /\ KeyOf(st.name.s \o S_Dash \o st.location.s) = KeyOf(v.s)

EmployeeErrors == {"EmployeeNotString", "EmployeeRequired", "EmployeeNoMatch"}
StoreErrors == {"StoreNotString", "StoreRequired", "StoreNoMatch"}
NotesErrors == {"NotesNotText", "NotesTooLong"}

\* r sent a well-formed body and its handler is past the allow-list block
PastAllowLists(r) ==
    body[r].kind = "ok" /\ pc[r] \notin {"none", "received", "fetch"}

WriteCalls(r) == calls[r].append + calls[r].addSheet + calls[r].batch

\* the data rows of the sheet written by r
RowsBy(r) ==
    {i \in 1..Len(sheet.rows) :
        sheet.rows[i].by = r /\ sheet.rows[i].cells # headerRow(deployed)}

\* C1: no Sheets write call is issued for a request unless every supplied
\* employee_name / store_location is allow-listed; a request answered 400
\* has issued no write; no row of the sheet written by the handler carries a
\* supplied value that is not allow-listed.
C1_NoWriteUnlessAllowListed ==
    \A r \in Reqs :
        LET d == body[r].data
            allowed ==
                /\ d.employee_name # Undefined =>
                     IsText(d.employee_name) /\ EmployeeListed(d.employee_name)
                /\ d.store_location # Undefined =>
                     IsText(d.store_location) /\ StoreListed(d.store_location)
        IN  /\ WriteCalls(r) > 0 => allowed
            /\ RowsBy(r) # {} => allowed
            /\ pres[r].status = 400 => WriteCalls(r) = 0

\* C1 holds of the validating version of the route
C1_ValidatingVersion == deployed = "validating" => C1_NoWriteUnlessAllowListed

\* C2: once the reference data is fetched, a supplied employee_name passes
\* the employee check exactly when it is a string, not blank, and has the
\* key of a non-empty fetched name; otherwise processSubmission answers 400,
\* and for a name that is not listed the error text contains "employee".
C2_EmployeeCheck ==
    \A r \in Reqs :
        (/\ deployed = "validating"
         /\ body[r].kind = "ok"
         /\ body[r].data.employee_name # Undefined
         /\ fetched[r].ok) =>
            LET v == body[r].data.employee_name
                wellFormed == IsText(v) /\ NonBlank(v.s)
                rejected == pres[r].error \in EmployeeErrors
            IN  /\ ~rejected <=> (wellFormed /\ EmployeeListed(v))
                /\ rejected => pres[r].status = 400
                /\ (wellFormed /\ ~EmployeeListed(v)) =>
                      Includes(ErrorMessage(pres[r].error), S_employee)

\* C2 witness: a spaced variant of a listed name passed the check
C2_Witness ==
    \E r \in Reqs :
        /\ deployed = "validating"
        /\ body[r].data.employee_name = Str(S_JaneDoeSpaced)
        /\ doc.employees.rows = <<EmployeeRow(Str(S_JaneDoe))>>
        /\ fetched[r].ok
        /\ pres[r] = NoResponse
        /\ pc[r] = "append"

\* C3: once the employee check is passed, a store_location that is a
\* non-blank string passes the store check exactly when it has the key of a
\* store's bare name or of "{name} - {location}" of a store with non-blank
\* name and location; otherwise processSubmission answers 400.  With the
\* single store {Store A, Jakarta}: "Store A", "Store A - Jakarta" and their
\* case/space variants pass, "Store A - Bandung" is answered 400.
C3_StoreCheck ==
    \A r \in Reqs :
        (/\ deployed = "validating"
         /\ body[r].kind = "ok"
         /\ body[r].data.store_location # Undefined
         /\ fetched[r].ok
         /\ pres[r].error \notin EmployeeErrors) =>
            LET v == body[r].data.store_location
                wellFormed == IsText(v) /\ NonBlank(v.s)
                rejected == pres[r].error \in StoreErrors
            IN  /\ ~rejected <=> (wellFormed /\ StoreListed(v))
                /\ rejected => pres[r].status = 400
                /\ doc.stores.rows = <<StoreRow(Str(S_StoreA), Str(S_Jakarta))>> =>
                     /\ v \in {Str(S_StoreA), Str(S_StoreAJakarta),
                               Str(S_storeaSpaced), Str(S_STOREAJAKARTA)}
                           => ~rejected
                     /\ v = Str(S_StoreABandung)
                           => pres[r] = ErrorResponse(400, "StoreNoMatch")

\* C3 witness: the upper-case, double-spaced "{name} - {location}" passed
C3_Witness ==
    \E r \in Reqs :
        /\ deployed = "validating"
        /\ body[r].data.store_location = Str(S_STOREAJAKARTA)
        /\ doc.stores.rows = <<StoreRow(Str(S_StoreA), Str(S_Jakarta))>>
        /\ fetched[r].ok
        /\ pres[r] = NoResponse
        /\ pc[r] = "append"

\* C4: the employee and store cells of rowData, and of every row the
\* request has written, are the submitted values with leading and trailing
\* white space removed and nothing else changed.
C4_StoresTrimmedInput ==
    \A r \in Reqs :
        (deployed = "validating" /\ body[r].kind = "ok") =>
            LET d == body[r].data
                asSubmitted(cells) ==
                    /\ d.employee_name # Undefined =>
                         cells[3] = Str(trim(d.employee_name.s))
                    /\ d.store_location # Undefined =>
                         cells[4] = Str(trim(d.store_location.s))
            IN  /\ row[r] # <<>> => asSubmitted(row[r])
                /\ \A i \in RowsBy(r) : asSubmitted(sheet.rows[i].cells)

\* C4 witness: a row written for " Jane   Doe " holds "Jane   Doe", which is
\* neither the listed "Jane Doe" nor the key "jane doe"
C4_Witness ==
    \E r \in Reqs : \E i \in RowsBy(r) :
        /\ deployed = "validating"
        /\ body[r].data.employee_name = Str(S_JaneDoeSpaced)
        /\ sheet.rows[i].cells[3] = Str(trim(S_JaneDoeSpaced))
        /\ sheet.rows[i].cells[3] # Str(S_JaneDoe)
        /\ sheet.rows[i].cells[3] # Str(KeyOf(S_JaneDoeSpaced))

\* C5: supplied notes that are not a string, or longer than 200 characters
\* after trimming, are never written and never answered 201, and are
\* answered 400 by the notes check when the allow-list block has not
\* answered before; notes of at most 200 characters after trimming pass the
\* notes check and the trimmed notes are what is written.
C5_NotesCheck ==
    \A r \in Reqs :
        (/\ deployed = "validating"
         /\ body[r].kind = "ok"
         /\ body[r].data.notes # Undefined) =>
            LET n == body[r].data.notes
                tooLong == IsText(n) /\ Len(trim(n.s)) > 200
                reached ==
                    /\ PastAllowLists(r)
                    /\ pres[r].error
                         \notin EmployeeErrors \cup StoreErrors \cup {"ValidateFailed"}
            IN  /\ (~IsText(n) \/ tooLong) =>
                     /\ WriteCalls(r) = 0
                     /\ pres[r].status # 201
                     /\ resp[r].status # 201
                /\ (reached /\ ~IsText(n)) =>
                     pres[r] = ErrorResponse(400, "NotesNotText")
                /\ (reached /\ tooLong) =>
                     pres[r] = ErrorResponse(400, "NotesTooLong")
                /\ (reached /\ IsText(n) /\ ~tooLong) =>
                     /\ pres[r].error \notin NotesErrors
                     /\ row[r] # <<>> => row[r][9] = Str(trim(n.s))
                     /\ \A i \in RowsBy(r) :
                           sheet.rows[i].cells[9] = Str(trim(n.s))

\* C5 witness: notes of exactly 200 characters between blanks were written,
\* trimmed
C5_Witness ==
    \E r \in Reqs : \E i \in RowsBy(r) :
        /\ deployed = "validating"
        /\ body[r].data.notes = Str(<<" ">> \o Xs(200) \o <<" ">>)
        /\ sheet.rows[i].cells[9] = Str(Xs(200))
        /\ pres[r].status = 201

\* the reference data cannot be fetched for r: a setting is missing, or a
\* tab the request needs is absent
FetchCannotSucceed(r) ==
    /\ NeedsFetch(body[r].data)
    /\ \/ ~env.clientEmail \/ ~env.privateKey \/ ~env.spreadsheetId
       \/ body[r].data.employee_name # Undefined /\ ~doc.employees.present
       \/ body[r].data.store_location # Undefined /\ ~doc.stores.present

FetchFailed(r) == ~fetched[r].ok /\ fetched[r].error # "not called"

\* C6: when the reference data fetch of a validated submission fails,
\* processSubmission answers 500 'Failed to validate submission data', the
\* caller is answered neither 400 nor 201, and no write call is issued; a
\* 400 'must match an existing ...' is produced only after a fetch that
\* succeeded.
C6_FetchFailureIs500 ==
    \A r \in Reqs :
        deployed = "validating" =>
            /\ (PastAllowLists(r) /\ FetchCannotSucceed(r)) => FetchFailed(r)
            /\ FetchFailed(r) =>
                  /\ pres[r] = ErrorResponse(500, "ValidateFailed")
                  /\ Includes(ErrorMessage(pres[r].error),
                              <<"F", "a", "i", "l", "e", "d", " ", "t", "o", " ",
                                "v", "a", "l", "i", "d", "a", "t", "e">>)
                  /\ resp[r].status \notin {400, 201}
                  /\ WriteCalls(r) = 0
                  /\ RowsBy(r) = {}
            /\ pres[r].error \in {"EmployeeNoMatch", "StoreNoMatch"} =>
                  fetched[r].ok

\* C6 witness: the 'Employees' tab is absent and the caller got the 500
C6_Witness ==
    \E r \in Reqs :
        /\ deployed = "validating"
        /\ fetched[r].error = "Employees sheet not found"
        /\ resp[r] = ErrorResponse(500, "ValidateFailed")

\* what a gateway exchange asked for and what it answered
GwWantsEmployees ==
    IF gw.kind = "fetch" THEN gw.options.includeEmployees
    ELSE gw.type \in {"employees", "all"}
GwWantsStores ==
    IF gw.kind = "fetch" THEN gw.options.includeStores
    ELSE gw.type \in {"stores", "all"}
GwIsError ==
    IF gw.kind = "fetch" THEN ~gw.result.ok ELSE gw.result.status # 200
GwEmployeesEmpty ==
    IF gw.kind = "fetch" THEN gw.result.value.employees = <<>>
    ELSE gw.result.employees.t = "array" /\ gw.result.employees.items = <<>>
GwStoresEmpty ==
    IF gw.kind = "fetch" THEN gw.result.value.stores = <<>>
    ELSE gw.result.stores.t = "array" /\ gw.result.stores.items = <<>>

\* C7: whenever a list is requested from the reference data gateway, a
\* missing setting or an absent 'Employees' / 'Stores' tab gives an error,
\* not a list; an empty list is answered only for a list that was not
\* requested or whose tab exists and has no rows.
C7_NoEmptyListOnFailure ==
    gw.kind # "none" =>
        /\ ((GwWantsEmployees \/ GwWantsStores)
             /\ (~env.clientEmail \/ ~env.privateKey \/ ~env.spreadsheetId))
              => GwIsError
        /\ (GwWantsEmployees /\ ~doc.employees.present) => GwIsError
        /\ (GwWantsStores /\ ~doc.stores.present) => GwIsError
        /\ (~GwIsError /\ GwEmployeesEmpty) =>
              \/ ~GwWantsEmployees
              \/ doc.employees.present /\ doc.employees.rows = <<>>
        /\ (~GwIsError /\ GwStoresEmpty) =>
              \/ ~GwWantsStores
              \/ doc.stores.present /\ doc.stores.rows = <<>>

\* C7 holds of fetchAllowedSheetData
C7_FetchAllowedSheetData == gw.kind = "fetch" => C7_NoEmptyListOnFailure

\* the label the header gives to the column filled from a data field
ColumnLabel(field) ==
    CASE field = "timestamp" -> Str(<<"Timestamp">>)
      [] field = "audit_date" -> Str(<<"Audit Date">>)
      [] field = "employee_name" -> Str(<<"Employee Name">>)
      [] field = "store_location" -> Str(<<"Store Location">>)
      [] field = "before_image" -> Str(<<"Before Image">>)
      [] field = "after_image" -> Str(<<"After Image">>)
      [] field = "visibility" -> Str(<<"Visibility">>)
      [] field = "out_of_stock" -> Str(<<"Out of Stock Items">>)
      [] field = "notes" -> Str(<<"Notes">>)
      [] field = "formTitle" -> Str(<<"Form Title">>)

HeaderMatchesLayout ==
    /\ Len(headerRow(deployed)) = Len(rowFields(deployed))
    /\ \A i \in 1..Len(rowFields(deployed)) :
          headerRow(deployed)[i] = ColumnLabel(rowFields(deployed)[i])
    /\ \A r \in Reqs : row[r] # <<>> => Len(row[r]) = Len(headerRow(deployed))

\* the 'Submissions' tab was absent at the start: it is absent, or a
\* request has created it
StartedAbsent ==
    ~sheet.present \/ \E q \in Reqs : pc[q] = "batch" \/ calls[q].batch > 0

\* processSubmission of r answers 201 in this step
Succeeds(r) == pres[r].status # 201 /\ pres'[r].status = 201

FirstCreatesLaterAppend(r) ==
    IF \A q \in Reqs : pres[q].status # 201
    THEN /\ calls'[r].addSheet = 1
         /\ sheet'.present
         /\ Len(sheet'.rows) >= 2
         /\ sheet'.rows[1].cells = headerRow(deployed)
         /\ sheet'.rows[2] = SheetRow(row[r], r)
    ELSE /\ calls'[r].addSheet = 0
         /\ calls'[r].batch = 0
         /\ sheet'.rows = Append(sheet.rows, SheetRow(row[r], r))

\* C8: starting without a 'Submissions' tab, the first submission that
\* succeeds creates the tab and leaves the header in row 1 and its row in
\* row 2; every later submission that succeeds adds its row after the
\* existing rows and neither creates the tab nor writes the header; the
\* header has the column order of the data rows.
C8_FirstCreatesLaterAppend ==
    [][/\ HeaderMatchesLayout
       /\ \A r \in Reqs :
            (StartedAbsent /\ Succeeds(r)) => FirstCreatesLaterAppend(r)]_vars

\* an API call was made and answered with an error
Failed(e) == e # NotCalled /\ e # ApiOk

\* no other request is inside addToGoogleSheets
AloneInWriter(r) ==
    \A q \in Reqs \ {r} : pc[q] \notin {"append", "addSheet", "batch"}

\* C8 holds of a submission that succeeds while no other request is inside
\* the writer, no header+row write has failed, and the tab, if it has rows,
\* has the header on top
C8_WithoutOverlap ==
    [][/\ HeaderMatchesLayout
       /\ \A r \in Reqs :
            (/\ StartedAbsent
             /\ Succeeds(r)
             /\ AloneInWriter(r)
             /\ \A q \in Reqs : ~Failed(errors[q].batch)
             /\ sheet.rows = <<>> \/ sheet.rows[1].cells = headerRow(deployed))
              => FirstCreatesLaterAppend(r)]_vars

\* r's handler has entered addToGoogleSheets
EnteredWriter(r) ==
    /\ body[r].kind = "ok"
    /\ pc[r] \notin {"none", "received", "fetch"}
    /\ pres[r].error
         \notin EmployeeErrors \cup StoreErrors \cup NotesErrors \cup {"ValidateFailed"}

\* C9: per submission addToGoogleSheets issues at most one append, one
\* addSheet and one header+row write, the latter two only after the append
\* failed with code 400 or an 'Unable to parse range' message (and the
\* header+row write only after the addSheet); every pending call can be
\* answered, and the writer ends with a range string or with null.
C9_BoundedRecovery ==
    \A r \in Reqs :
        /\ calls[r].append <= 1
        /\ calls[r].addSheet <= 1
        /\ calls[r].batch <= 1
        /\ calls[r].addSheet > 0 =>
              /\ calls[r].append = 1
              /\ errors[r].append.code = 400 \/ errors[r].append.parseRange
        /\ calls[r].batch > 0 =>
              calls[r].addSheet = 1 /\ errors[r].addSheet = ApiOk
        /\ pc[r] = "append" => ENABLED AppendCall(r)
        /\ pc[r] = "addSheet" => ENABLED AddSheetCall(r)
        /\ pc[r] = "batch" => ENABLED HeaderAndRowCall(r)
        /\ (EnteredWriter(r) /\ pc[r] = "done") =>
              \/ pres[r] = ErrorResponse(500, "SaveFailed")
              \/ /\ pres[r].status = 201
                 /\ pres[r].sheetsRange.t = "string"
                 /\ pres[r].sheetsRange.s # <<>>

\* C9 witness: a submission went through append, addSheet and the header+row
\* write, once each, and succeeded
C9_Witness ==
    \E r \in Reqs :
        /\ calls[r] = [append |-> 1, addSheet |-> 1, batch |-> 1]
        /\ errors[r].append = ErrParseRange
        /\ pres[r].status = 201

\* C10: when the append fails with an error that is not recovery-eligible,
\* or the addSheet or the header+row write fails, or no spreadsheet id is
\* set, processSubmission answers 500 'Failed to save submission': no 201,
\* no id, no further write call for the request, and no row of it written.
C10_WriteFailureIs500 ==
    \A r \in Reqs :
        LET appendFatal ==
                /\ Failed(errors[r].append)
                /\ ~(errors[r].append.code = 400 \/ errors[r].append.parseRange)
            addSheetFailed == Failed(errors[r].addSheet)
            batchFailed == Failed(errors[r].batch)
            noId == EnteredWriter(r) /\ ~env.spreadsheetId /\ ~env.sheetsId
        IN  /\ (appendFatal \/ addSheetFailed \/ batchFailed \/ noId) =>
                 /\ pc[r] = "done"
                 /\ pres[r] = ErrorResponse(500, "SaveFailed")
                 /\ resp[r].status # 201
                 /\ ~resp[r].hasId
                 /\ RowsBy(r) = {}
            /\ appendFatal => calls[r] = [append |-> 1, addSheet |-> 0, batch |-> 0]
            /\ addSheetFailed => calls[r] = [append |-> 1, addSheet |-> 1, batch |-> 0]
            /\ batchFailed => calls[r] = [append |-> 1, addSheet |-> 1, batch |-> 1]
            /\ noId => calls[r] = NoCalls

\* C10 witness: the addSheet of the recovery path failed and the caller got
\* the 500
C10_Witness ==
    \E r \in Reqs :
        /\ errors[r].append = ErrParseRange
        /\ Failed(errors[r].addSheet)
        /\ resp[r] = ErrorResponse(500, "SaveFailed")

TimedOut(r) == resp[r] = ErrorResponse(408, "Timeout")

\* C11: a caller is answered 408 only while processSubmission is pending,
\* and keeps that answer; the step that answers 408 leaves the processing
\* where it was (position, fetched data, row, calls and the sheet), so it
\* goes on and ends with its own result; a caller not answered 408
\* receives, when the processing ends, the result of the processing, and is
\* never answered 408 afterwards.
C11_TimeoutDoesNotCancel ==
    [][\A r \in Reqs :
        /\ (~TimedOut(r) /\ TimedOut(r)') =>
              /\ pc[r] \notin {"none", "done"}
              /\ pres[r] = NoResponse
              /\ UNCHANGED <<pc, pres, fetched, row, calls, errors, sheet>>
        /\ TimedOut(r) => TimedOut(r)'
        /\ pc'[r] = "done" => pres'[r] # NoResponse
        /\ (pc'[r] = "done" /\ ~TimedOut(r)') => resp'[r] = pres'[r]
        /\ (pc[r] = "done" /\ ~TimedOut(r)) => ~TimedOut(r)']_vars

\* C11 witness: the caller was answered 408, the processing went on to
\* 201, and the row of the submission is in the sheet
C11_Witness ==
    \E r \in Reqs :
        /\ TimedOut(r)
        /\ pres[r].status = 201
        /\ RowsBy(r) # {}

\* the caller of the last exchange owns the form of submission s
OwnsFormOf(s) ==
    /\ forms[s.formId].status = "stored"
    /\ forms[s.formId].createdById = lastApi.session.id

Authored(s) == s.userId = lastApi.session.id

IsListing == lastApi.kind = "GET submissions"

\* the stored submissions the request is about: all, or those of the form
\* named by formId
InFilter(s) == lastApi.id = "" \/ s.formId = lastApi.id

\* C12: GET /submissions answers an authenticated caller with exactly the
\* stored submissions (of the form named by formId, when one is given)
\* that the caller authored, or whose form the caller owns, or all of them
\* when the caller has role ADMIN.
C12_TriWayRead ==
    (IsListing /\ lastApi.session.id # "") =>
        \A s \in subs :
            InFilter(s) =>
                (s \in lastApi.result.items <=>
                    \/ Authored(s)
                    \/ OwnsFormOf(s)
                    \/ lastApi.session.role = "ADMIN")

\* C13: an authenticated non-admin caller never receives a submission it
\* did not author and whose form it does not own; naming a form it does
\* not own gives 404 'Form not found or access denied' and no submission;
\* a caller without a session gets 401 and no submission.
C13_NoReadForUnrelated ==
    IsListing =>
        /\ lastApi.result.items \subseteq subs
        /\ lastApi.session.id = "" =>
              /\ lastApi.result.status = 401
              /\ lastApi.result.items = {}
        /\ (lastApi.session.id # "" /\ lastApi.session.role # "ADMIN") =>
              /\ \A s \in lastApi.result.items : Authored(s) \/ OwnsFormOf(s)
              /\ (/\ lastApi.id # ""
                  /\ \/ FindForm(forms, lastApi.id) = Null
                     \/ forms[lastApi.id].createdById # lastApi.session.id) =>
                    /\ lastApi.result.status = 404
                    /\ lastApi.result.error = "FormNotFoundOrDenied"
                    /\ lastApi.result.items = {}

\* C13 witness: a non-admin user names a form of another user that holds a
\* submission of a third party, and gets 404
C13_Witness ==
    /\ IsListing
    /\ lastApi.session = SessionOf("u2")
    /\ lastApi.id = "f1"
    /\ forms["f1"].createdById = "u1"
    /\ \E s \in subs : s.formId = "f1" /\ s.userId = "u1"
    /\ lastApi.result.status = 404

\* the form that request r names is stored and not active
NamesInactiveForm(r) ==
    /\ body[r].kind = "ok"
    /\ FindForm(forms, body[r].formId) # Null
    /\ ~forms[body[r].formId].isActive

\* C14: while the form a POST /submissions names is not active, the request
\* is not answered 201 and no row is written for it; the step that
\* deactivates or reactivates a form leaves the rows of the sheet as they
\* are.
C14_InactiveFormAcceptsNothing ==
    [][/\ \A r \in Reqs :
            NamesInactiveForm(r) =>
                /\ pres'[r].status = 201 => pres[r].status = 201
                /\ RowsBy(r)' = RowsBy(r)
       /\ forms' # forms => sheet' = sheet]_vars

\* the caller of the exchange made in this step may change the form it
\* names: it has a session and created the form, or has role ADMIN
MayChangeForm ==
    /\ lastApi'.session.id # ""
    /\ FindForm(forms, lastApi'.id) # Null
    /\ \/ forms[lastApi'.id].createdById = lastApi'.session.id
       \/ lastApi'.session.role = "ADMIN"

\* the answer the claim gives to a caller that may not change the form
RefusalOf(session, id) ==
    IF session.id = "" THEN ApiResponse(401, "Unauthorized")
    ELSE IF FindForm(forms, id) = Null THEN ApiResponse(404, "FormNotFound")
    ELSE ApiResponse(403, "PermissionDenied")

\* C15: a PATCH or DELETE of /api/forms/{id} changes the Form table only
\* for a caller with a session that created the form or has role ADMIN, and
\* then only the form it names; any other caller leaves the tables unchanged
\* and is answered 401 (no session), 404 (no such form) or 403 'Permission
\* denied'.
C15_OwnerOrAdminWrites ==
    [][lastApi'.kind \in {"PATCH forms", "DELETE forms"} =>
          /\ forms' # forms =>
                /\ MayChangeForm
                /\ \A id \in FormIds \ {lastApi'.id} : forms'[id] = forms[id]
          /\ ~MayChangeForm =>
                /\ forms' = forms
                /\ subs' = subs
                /\ lastApi'.result = RefusalOf(lastApi'.session, lastApi'.id)]_vars

\* C15 witness: a user who did not create the form and is no admin was
\* refused with 403 and the form is as it was
C15_Witness ==
    /\ lastApi.kind \in {"PATCH forms", "DELETE forms"}
    /\ lastApi.session = SessionOf("u2")
    /\ lastApi.id = "f1"
    /\ lastApi.result.status = 403
    /\ forms["f1"] = FormsStandard["f1"]

\* every field of every stored schema has an id and a non-empty label
StoredSchemasWellFormed ==
    \A id \in FormIds :
        forms[id].status = "stored" =>
            \A i \in 1..Len(forms[id].schema.fields) :
                LET f == forms[id].schema.fields[i]
                IN  /\ typeof(f.id) = "string"
                    /\ typeof(f.label) = "string"
                    /\ f.label.s # <<>>

\* the body of the exchange made in this step carries a schema with a field
\* that has no id or no non-empty label
CarriesDefectiveSchema ==
    /\ lastApi'.body.kind = "ok"
    /\ lastApi'.body.schema # Undefined
    /\ \E i \in 1..Len(lastApi'.body.schema.fields) :
          LET f == lastApi'.body.schema.fields[i]
          IN  \/ typeof(f.id) # "string"
              \/ typeof(f.label) # "string"
              \/ f.label.s = <<>>

\* a caller that the route lets through to the body
ReachesBody ==
    IF lastApi'.kind = "POST forms" THEN lastApi'.session.id # ""
    ELSE MayChangeForm

\* C19: a POST /api/forms or PATCH /api/forms/{id} whose schema has a field
\* without an id or without a non-empty label is answered 400 and leaves
\* the Form table unchanged; every stored schema has an id and a non-empty
\* label on every field.
C19_SchemaCheckedWhenStored ==
    [][/\ (/\ lastApi'.kind \in {"POST forms", "PATCH forms"}
           /\ ReachesBody
           /\ CarriesDefectiveSchema) =>
              lastApi'.result.status = 400 /\ forms' = forms
       /\ StoredSchemasWellFormed']_vars

\* C19 holds of POST /api/forms
C19_OnCreate ==
    [][(/\ lastApi'.kind = "POST forms"
        /\ ReachesBody
        /\ CarriesDefectiveSchema) =>
           lastApi'.result.status = 400 /\ forms' = forms]_vars

\* the URL the claim reads out of one element of an array of uploads
ElementUrl(e) ==
    IF e.t = "string" THEN e
    ELSE IF e.t = "object" /\ typeof(e.url) = "string" THEN e.url
    ELSE Str(<<>>)

\* the flattening as the claim states it
FlattenedUrl(v) ==
    IF v.t = "string" THEN v
    ELSE IF v.t = "object" /\ typeof(v.url) = "string" THEN v.url
    ELSE IF v.t = "array" /\ Len(v.items) > 0 THEN ElementUrl(v.items[1])
    ELSE Str(<<>>)

\* C16: getFileUrl maps {url: "x"} to "x", an array to the URL of its first
\* element (["a","b"] to "a"), a string to itself and null, undefined and
\* every other shape to ""; its result is always a string.
C16_FileUrlFlattening ==
    (calc.fn = "getFileUrl" /\ calc.output # NotApplied) =>
        /\ calc.output = FlattenedUrl(calc.input)
        /\ typeof(calc.output) = "string"

\* the value of a field left empty
Cleared(field) == defaultValue(field)

IsNumeric(s) == trim(s) # <<>> /\ StringToNumber(s) # NaN

\* the rule of the type of a field on a non-empty value
TypeRule(field, value) ==
    CASE field.type = "email" -> typeof(value) = "string" /\ IsEmail(value.s)
      [] field.type = "number" ->
            typeof(value) = "string" /\ IsNumeric(value.s)
      [] field.type = "checkbox" ->
            IF field.multiple THEN value.t = "array"
            ELSE typeof(value) = "boolean"
      [] OTHER -> typeof(value) = "string"

\* a value satisfies the type and required rule of its field: a required
\* field is not left empty and meets its type; an optional field is left
\* empty or meets its type
Satisfies(field, value) ==
    IF value = Cleared(field) THEN ~field.required
    ELSE TypeRule(field, value)

Validated == calc.fn = "validationSchema" /\ calc.output # NotApplied

ErrorIds == {e.id : e \in calc.output.errors}

\* C17: the validator derived from a field list reports no error for a
\* record in which every value satisfies the type and required rule of its
\* field, and for a record in which one required field is left empty and
\* every other value satisfies its rule it reports exactly one error, under
\* the id of that field.
C17_ValidatorFollowsRules ==
    Validated =>
        LET fields == calc.input.fields
            values == calc.input.values
            Ok(i) == Satisfies(fields[i], values[i])
        IN  /\ (\A i \in 1..Len(fields) : Ok(i)) =>
                  ~calc.output.thrown /\ calc.output.errors = {}
            /\ \A i \in 1..Len(fields) :
                  (/\ fields[i].required
                   /\ values[i] = Cleared(fields[i])
                   /\ \A j \in 1..Len(fields) \ {i} : Ok(j)) =>
                      /\ ~calc.output.thrown
                      /\ ErrorIds = {fields[i].id}
                      /\ Cardinality(calc.output.errors) = 1

\* C18: a number field has an error exactly when its input is not numeric
\* or it is required and its input is empty; a numeric input of any size
\* and sign passes for a required and for an optional field. (An optional
\* field left empty or blank is left to either outcome.)
C18_NumberFieldRule ==
    (Validated /\ ~calc.output.thrown) =>
        \A i \in 1..Len(calc.input.fields) :
            LET field == calc.input.fields[i]
                s == calc.input.values[i].s
                failed == field.id \in ErrorIds
            IN  field.type = "number" =>
                    /\ IsNumeric(s) => ~failed
                    /\ (field.required /\ s = <<>>) => failed
                    /\ (trim(s) # <<>> /\ ~IsNumeric(s)) => failed

\* C20: the ids of the field list of the form builder are pairwise distinct
\* after every sequence of handleAddField, handleUpdateField, removeField
\* and moveField, whatever the clock shows at each addition.
C20_FieldIdsDistinct ==
    \A i \in 1..Len(builder.fields) : \A j \in 1..Len(builder.fields) :
        i # j => builder.fields[i].id # builder.fields[j].id

\* updateField, removeField and moveField never make two ids equal
C20_OnlyAddFieldRepeatsAnId ==
    [][(C20_FieldIdsDistinct /\ Len(builder.fields') <= Len(builder.fields))
          => C20_FieldIdsDistinct']_vars

\* the body of r is not JSON, or is refused by submitFormSchema
Malformed(r) == body[r].kind \in {"badjson", "invalid"}

\* C21: a POST /submissions whose body is not parseable as JSON, or whose
\* formId, data or files have the wrong shape, is answered 400 and nothing
\* is fetched from or written to the spreadsheet for it.
C21_MalformedIs400 ==
    \A r \in Reqs :
        (Malformed(r) /\ pc[r] = "done") =>
            /\ pres[r].status = 400
            /\ fetched[r] = NotFetched
            /\ WriteCalls(r) = 0
            /\ RowsBy(r) = {}

\* C21 holds of a body that is JSON and is refused by submitFormSchema, and
\* a body that is not JSON touches the spreadsheet no more than that
C21_SchemaRefusalIs400 ==
    \A r \in Reqs :
        (Malformed(r) /\ pc[r] = "done") =>
            /\ body[r].kind = "invalid" =>
                  pres[r] = ErrorResponse(400, "InvalidFormData")
            /\ fetched[r] = NotFetched
            /\ WriteCalls(r) = 0
            /\ RowsBy(r) = {}

Answered(r) == resp[r] # NoResponse

\* C22: every POST /submissions gets exactly one response, with status 201,
\* 400, 408 or 500: a response once given is never replaced, a request whose
\* processSubmission has ended has its response, whatever failed on the way
\* (body parsing, validation, the reference data fetch, the Sheets API), and
\* every request that was received is answered in the end.
C22_ExactlyOneResponse ==
    /\ [][\A r \in Reqs :
             /\ Answered(r) => resp'[r] = resp[r]
             /\ Answered(r)' => resp'[r].status \in {201, 400, 408, 500}
             /\ pc'[r] = "done" => Answered(r)']_vars
    /\ \A r \in Reqs : (pc[r] # "none") ~> Answered(r)

\* C22 witness: the timer answered 408, processSubmission went on, its
\* Sheets write failed and it ended with a 500 that replaced nothing
C22_Witness ==
    \E r \in Reqs :
        /\ pc[r] = "done"
        /\ Failed(errors[r].append)
        /\ pres[r].status = 500
        /\ resp[r] = ErrorResponse(408, "Timeout")

\* the payload of r is well-formed, its employee_name and store_location
\* are in the lists of the spreadsheet and its notes are within the limit
HappyPayload(r) ==
    /\ body[r].kind = "ok"
    /\ IsText(body[r].data.employee_name)
    /\ EmployeeListed(body[r].data.employee_name)
    /\ IsText(body[r].data.store_location)
    /\ StoreListed(body[r].data.store_location)
    /\ IsText(body[r].data.notes)
    /\ Len(trim(body[r].data.notes.s)) <= NotesLimit

\* the spreadsheet accepted a write of r's row
WriteAccepted(r) == errors[r].append = ApiOk \/ errors[r].batch = ApiOk

\* C23: a well-formed submission whose employee_name and store_location are
\* in the fetched allow-lists and whose notes are within the limit is never
\* refused with 400; when the spreadsheet accepts its write before the timer
\* fires it is answered 201 with an id and a sheetsRange string, and exactly
\* one data row of it is in the sheet at that moment.
C23_HappyPathIs201 ==
    [][\A r \in Reqs :
          (deployed = "validating" /\ fetched'[r].ok) =>
              /\ pres'[r].status = 400 => ~HappyPayload(r)
              /\ (pc[r] # "done" /\ pc'[r] = "done" /\ WriteAccepted(r)'
                    /\ ~Answered(r) /\ HappyPayload(r)) =>
                    /\ resp'[r].status = 201
                    /\ resp'[r].hasId
                    /\ typeof(resp'[r].sheetsRange) = "string"
                    /\ resp'[r].sheetsRange.s # <<>>
                    /\ Cardinality(RowsBy(r)') = 1]_vars

\* C23 witness: the submission of Jane Doe at Store A - Jakarta was answered
\* 201 by the validating route and its row is in the sheet
C23_Witness ==
    \E r \in Reqs :
        /\ deployed = "validating"
        /\ body[r] = SmallBodies[1]
        /\ fetched[r].ok
        /\ resp[r].status = 201
        /\ Cardinality(RowsBy(r)) = 1

ConfigMissing == ~env.clientEmail \/ ~env.privateKey \/ ~env.spreadsheetId

\* C24: GET /api/sheets-data answers 500 when a setting of the spreadsheet
\* is missing and 404 when a requested tab is absent ('Employees' for
\* type=employees, 'Stores' for type=stores, either one when type is
\* omitted); a 200 carries the requested lists as the tabs hold them. (A
\* failed read of the spreadsheet may answer 500 in place of the 404.)
C24_AbsentTabIs404 ==
    gw.kind = "GET" =>
        /\ ConfigMissing => gw.result.status = 500
        /\ (~ConfigMissing /\ GwWantsEmployees /\ ~doc.employees.present) =>
              gw.result.status \in {404, 500}
        /\ (~ConfigMissing /\ GwWantsStores /\ ~doc.stores.present) =>
              gw.result.status \in {404, 500}
        /\ gw.result.status = 200 =>
              /\ GwWantsEmployees =>
                    gw.result.employees = Arr(employeesOf(doc.employees.rows))
              /\ GwWantsStores =>
                    gw.result.stores = Arr(storesOf(doc.stores.rows))

\* C24 holds of the requests that name one list
C24_OneListRequested ==
    (gw.kind = "GET" /\ gw.type # "all") => C24_AbsentTabIs404

\* r and q sent the same payload and processSubmission of both ended
\* with 201
BothSucceeded(r, q) ==
    /\ r # q
    /\ body[r] = body[q]
    /\ pres[r].status = 201
    /\ pres[q].status = 201

\* each of r and q has exactly one data row in the sheet, the two rows with
\* the same cells
TwoEqualRows(r, q) ==
    /\ Cardinality(RowsBy(r)) = 1
    /\ Cardinality(RowsBy(q)) = 1
    /\ \A i \in RowsBy(r), j \in RowsBy(q) :
          sheet.rows[i].cells = sheet.rows[j].cells

\* C25: submissions are not de-duplicated: every POST /submissions that
\* succeeds adds one data row whatever was sent before, so that the same
\* payload sent twice and answered with success twice is in the sheet twice.
C25_NoDeduplication ==
    \A r \in Reqs, q \in Reqs : BothSucceeded(r, q) => TwoEqualRows(r, q)

\* C25 holds as long as no header+row write of the recovery path was made
C25_DirectAppends ==
    (\A p \in Reqs : errors[p].batch # ApiOk) => C25_NoDeduplication

\* the addSheet of r was refused because the tab exists, after the addSheet
\* of another request created it
LostCreationRace(r) ==
    /\ errors[r].addSheet = ErrBadRequest
    /\ \E q \in Reqs \ {r} : errors[q].addSheet = ApiOk

\* C26: nothing sequences the writers: a request that is at its append or at
\* its addSheet can issue the call whatever the other requests are doing, so
\* two requests that found the tab missing both issue an addSheet; the one
\* whose addSheet fails because the tab now exists ends with 500 'Failed to
\* save submission', having issued one append, one addSheet and no further
\* write, and has no row in the sheet.
C26_CreationRaceUnhandled ==
    \A r \in Reqs :
        /\ pc[r] = "append" => ENABLED AppendCall(r)
        /\ pc[r] = "addSheet" => ENABLED AddSheetCall(r)
        /\ LostCreationRace(r) =>
              /\ pc[r] = "done"
              /\ pres[r] = ErrorResponse(500, "SaveFailed")
              /\ resp[r].status \in {500, 408}
              /\ calls[r] = [append |-> 1, addSheet |-> 1, batch |-> 0]
              /\ RowsBy(r) = {}

\* C26 witness: two requests found the tab missing and both issued an
\* addSheet; the second was refused and answered 500 with no row written
C26_Witness ==
    \E r \in Reqs, q \in Reqs :
        /\ r # q
        /\ errors[r].append = ErrParseRange
        /\ errors[q].append = ErrParseRange
        /\ errors[q].addSheet = ApiOk
        /\ LostCreationRace(r)
        /\ resp[r] = ErrorResponse(500, "SaveFailed")
        /\ RowsBy(r) = {}

\* processSubmission of r has ended with 201
Acknowledged(r) == pres[r].status = 201

\* C27: a data row of a submission that was acknowledged with 201 stays in
\* the 'Submissions' sheet: no step of any request removes or replaces it.
C27_AcknowledgedRowStays ==
    [][\A r \in Reqs :
          Acknowledged(r) =>
              \A i \in RowsBy(r) :
                  /\ i <= Len(sheet'.rows)
                  /\ sheet'.rows[i] = sheet.rows[i]]_vars

\* C27 holds of every step that is not a header+row write of the recovery
\* path
C27_OnlyRecoveryOverwrites ==
    [][(\A q \in Reqs : calls'[q].batch = calls[q].batch) =>
          \A r \in Reqs :
              Acknowledged(r) =>
                  \A i \in RowsBy(r) :
                      /\ i <= Len(sheet'.rows)
                      /\ sheet'.rows[i] = sheet.rows[i]]_vars

\* C28: the sheetsRange of a 201 is the range of the row the Sheets API
\* reported as written for that submission, after a direct append and after
\* the recovery path alike (the constant 'Submissions!A:J' stands in only
\* for a response without any written range, which an accepted write never
\* gives).
C28_ReportedRangeReturned ==
    [][\A r \in Reqs :
          (~Acknowledged(r) /\ Acknowledged(r)') =>
              \E i \in RowsBy(r)' :
                  pres'[r].sheetsRange = rowsRange(deployed, i, i)]_vars

\* the oldest version of the writer returns the range values.append reports
C28_OldestVersionAfterAppend ==
    \A n \in 1..(Len(sheet.rows) + 1) :
        /\ updatesRange(AppendData(rowsRange(deployed, n, n)))
              = rowsRange(deployed, n, n)
        /\ returnedRange(deployed, AppendData(rowsRange(deployed, n, n)))
              = defaultRange(deployed)

\* the attribute of the form after a PATCH whose body gives it the value v
Patched(v, old) == IF v # Undefined THEN v ELSE old

\* C29: a PATCH /api/forms/{id} by the creator or an admin replaces title,
\* description, isActive and schema by the values of the body that are not
\* undefined and keeps the others; the creator of the form, every other
\* form and every submission stay as they were; a body with none of the
\* four changes nothing.
C29_PatchChangesOnlyWhatIsSent ==
    [][(/\ lastApi'.kind = "PATCH forms"
        /\ MayChangeForm
        /\ lastApi'.body.kind = "ok") =>
           LET id == lastApi'.id
               b == lastApi'.body
           IN  /\ lastApi'.result.status = 200
               /\ forms'[id].title = Patched(b.title, forms[id].title)
               /\ forms'[id].description
                     = Patched(b.description, forms[id].description)
               /\ Bool(forms'[id].isActive)
                     = Patched(b.isActive, Bool(forms[id].isActive))
               /\ forms'[id].schema = Patched(b.schema, forms[id].schema)
               /\ forms'[id].createdById = forms[id].createdById
               /\ forms'[id].status = forms[id].status
               /\ \A other \in FormIds \ {id} : forms'[other] = forms[other]
               /\ subs' = subs
               /\ (/\ b.title = Undefined /\ b.description = Undefined
                   /\ b.isActive = Undefined /\ b.schema = Undefined) =>
                      forms' = forms]_vars

\* C29 witness: the owner sent { isActive: false }; the form is inactive and
\* has the title, description and schema it was created with
C29_Witness ==
    /\ lastApi.kind = "PATCH forms"
    /\ lastApi.session = SessionOf("u1")
    /\ lastApi.id = "f1"
    /\ lastApi.body = FormBody(Undefined, Undefined, Bool(FALSE), Undefined)
    /\ lastApi.result.status = 200
    /\ forms["f1"] = [FormsStandard["f1"] EXCEPT !.isActive = FALSE]
    /\ FormsStandard["f1"].isActive

\* the image fields a file is selected for, in the order of their uploads
SelectedImages(f) ==
    (IF f.beforeImageFile # Null THEN <<"before_image">> ELSE <<>>)
        \o (IF f.afterImageFile # Null THEN <<"after_image">> ELSE <<>>)

\* the url the upload for fieldName returned in this run, "" without upload
ReturnedUrl(log, fieldName) ==
    IF \E i \in DOMAIN log : log[i].fieldId = fieldName
    THEN (log[CHOOSE i \in DOMAIN log : log[i].fieldId = fieldName]).result
    ELSE Str(<<>>)

\* the handler has run and is over
HandlerFinished == appleForm.runs > 0 /\ appleForm.at = "idle"

====
